---------------------------- MODULE Spec2Model ----------------------------
(***************************************************************************)
(* The IDKG component of consensus (rs/consensus/src/idkg.rs): the driver  *)
(* IDkgImpl::on_state_change with its round-robin schedule and the         *)
(* periodic purge of inactive transcripts, and the gossip priority         *)
(* function compute_priority.                                              *)
(***************************************************************************)
EXTENDS Integers, FiniteSets, Sequences, TLC

(***************************************************************************)
(* Gossip priority: compute_priority and its inputs.                       *)
(***************************************************************************)

\* const LOOK_AHEAD: u64 = 10
LOOK_AHEAD == 10

\* Largest finalized / certified height of a priority snapshot.
MaxTip == 1

\* Largest number of dropped adverts counted per behaviour.
MaxDropped == 2

\* Heights of advertised artifacts: up to and past tip + LOOK_AHEAD.
AttrHeights == 0 .. (MaxTip + LOOK_AHEAD + 1)

Subnets == {1, 2}

Priorities == {"FetchNow", "Stash", "Drop"}

TranscriptKinds == {"Dealing", "DealingSupport", "Complaint", "Opening"}

SigShareKinds == {"EcdsaSigShare", "SchnorrSigShare"}

\* IDkgTranscriptId::new(source_subnet, id, source_height)
IDkgTranscriptId(subnet, id, height) ==
    [source_subnet |-> subnet, id |-> id, source_height |-> height]

\* RequestId { pre_signature_id, pseudo_random_id, height }
RequestId(pre_sig, random_id, height) ==
    [pre_signature_id |-> pre_sig, pseudo_random_id |-> random_id, height |-> height]

AttrTranscriptIds == {IDkgTranscriptId(s, 1, h) : s \in Subnets, h \in AttrHeights}

AttrRequestIds == {RequestId(1, 1, h) : h \in AttrHeights}

\* IDkgMessageAttribute: a kind and the transcript id or request id it carries.
IDkgMessageAttribute ==
    [kind : TranscriptKinds, id : AttrTranscriptIds]
        \cup [kind : SigShareKinds, id : AttrRequestIds]

\* The ids a snapshot's sets are drawn from: below the tip and just above it.
SnapshotTranscriptIds ==
    {IDkgTranscriptId(s, 1, h) : s \in Subnets, h \in {0, MaxTip + 1}}

SnapshotRequestIds == {RequestId(1, 1, h) : h \in {0, MaxTip + 1}}

AtMostOne(S) == {{}} \cup {{x} : x \in S}

\* struct IDkgPriorityFnArgs
IDkgPriorityFnArgs ==
    [finalized_height : 0 .. MaxTip,
     certified_height : 0 .. MaxTip,
     requested_transcripts : AtMostOne(SnapshotTranscriptIds),
     requested_signatures : AtMostOne(SnapshotRequestIds),
     active_transcripts : AtMostOne(SnapshotTranscriptIds)]

DealingPriorityNoXnet(attr, subnet_id, args) ==
    LET transcript_id == attr.id
        height == transcript_id.source_height
    IN  IF height <= args.finalized_height
        THEN IF transcript_id \in args.requested_transcripts
             THEN "FetchNow" ELSE "Drop"
        ELSE IF height < args.finalized_height + LOOK_AHEAD
             THEN "FetchNow" ELSE "Stash"

DealingPriorityStashesOld(attr, subnet_id, args) ==
    LET transcript_id == attr.id
        height == transcript_id.source_height
    IN  IF transcript_id.source_subnet # subnet_id
        THEN "FetchNow"
        ELSE IF height <= args.finalized_height
             THEN IF transcript_id \in args.requested_transcripts
                  THEN "FetchNow" ELSE "Stash"
             ELSE IF height < args.finalized_height + LOOK_AHEAD
                  THEN "FetchNow" ELSE "Stash"

\* compute_priority, arm Dealing | DealingSupport
DealingPriority(attr, subnet_id, args) ==
    LET transcript_id == attr.id
        height == transcript_id.source_height
    IN  IF transcript_id.source_subnet # subnet_id
        THEN "FetchNow"
        ELSE IF height <= args.finalized_height
             THEN IF transcript_id \in args.requested_transcripts
                  THEN "FetchNow" ELSE "Drop"
             ELSE IF height < args.finalized_height + LOOK_AHEAD
                  THEN "FetchNow" ELSE "Stash"

SigSharePriorityFinalized(attr, subnet_id, args) ==
    LET request_id == attr.id
    IN  IF request_id.height <= args.finalized_height
        THEN IF request_id \in args.requested_signatures
             THEN "FetchNow" ELSE "Drop"
        ELSE IF request_id.height < args.finalized_height + LOOK_AHEAD
             THEN "FetchNow" ELSE "Stash"

SigSharePriorityUnrequested(attr, subnet_id, args) ==
    LET request_id == attr.id
    IN  IF request_id.height < args.certified_height + LOOK_AHEAD
        THEN IF request_id \in args.requested_signatures
             THEN "FetchNow" ELSE "Drop"
        ELSE "Stash"

\* compute_priority, arm EcdsaSigShare | SchnorrSigShare
SigSharePriority(attr, subnet_id, args) ==
    LET request_id == attr.id
    IN  IF request_id.height <= args.certified_height
        THEN IF request_id \in args.requested_signatures
             THEN "FetchNow" ELSE "Drop"
        ELSE IF request_id.height < args.certified_height + LOOK_AHEAD
             THEN "FetchNow" ELSE "Stash"

ComplaintPriorityRequestedOnly(attr, subnet_id, args) ==
    LET transcript_id == attr.id
        height == transcript_id.source_height
    IN  IF height <= args.finalized_height
        THEN IF transcript_id \in args.requested_transcripts
             THEN "FetchNow" ELSE "Drop"
        ELSE IF height < args.finalized_height + LOOK_AHEAD
             THEN "FetchNow" ELSE "Stash"

ComplaintPriorityXnetExempt(attr, subnet_id, args) ==
    LET transcript_id == attr.id
        height == transcript_id.source_height
    IN  IF transcript_id.source_subnet # subnet_id
        THEN "FetchNow"
        ELSE IF height <= args.finalized_height
             THEN IF \/ transcript_id \in args.active_transcripts
                     \/ transcript_id \in args.requested_transcripts
                  THEN "FetchNow" ELSE "Drop"
             ELSE IF height < args.finalized_height + LOOK_AHEAD
                  THEN "FetchNow" ELSE "Stash"

\* compute_priority, arm Complaint | Opening
ComplaintPriority(attr, subnet_id, args) ==
    LET transcript_id == attr.id
        height == transcript_id.source_height
    IN  IF height <= args.finalized_height
        THEN IF \/ transcript_id \in args.active_transcripts
                \/ transcript_id \in args.requested_transcripts
             THEN "FetchNow" ELSE "Drop"
        ELSE IF height < args.finalized_height + LOOK_AHEAD
             THEN "FetchNow" ELSE "Stash"

\* fn compute_priority(attr, subnet_id, args, metrics) -> Priority
compute_priority(attr, subnet_id, args) ==
    CASE attr.kind \in {"Dealing", "DealingSupport"} ->
            DealingPriority(attr, subnet_id, args)
      [] attr.kind \in SigShareKinds ->
            SigSharePriority(attr, subnet_id, args)
      [] attr.kind \in {"Complaint", "Opening"} ->
            ComplaintPriority(attr, subnet_id, args)

VARIABLES
    p_attr,           \* the advert's attribute handed to the priority function
    p_subnet_id,      \* IDkgGossipImpl.subnet_id
    p_args,           \* the IDkgPriorityFnArgs captured by the priority function
    p_result,         \* the Priority last returned, "none" before the first call
    p_state,          \* the certified snapshot read by IDkgPriorityFnArgs::new
    dropped_adverts,  \* metrics.dropped_adverts, one counter per attribute label
    unvalidated,      \* IDkgPool: the unvalidated bag
    validated,        \* IDkgPool: the validated bag
    finalized_height, \* block reader: tip_height()
    requested,        \* block reader: requested_transcripts(), the active configs
    finished,         \* block reader: configs whose transcript is complete
    dealers,          \* block reader: the dealers of each config of the blocks
    certified_height, \* certified state snapshot: its height
    requests,         \* certified state: request contexts matched to a pre-signature
    served,           \* requests that have left the certified state
    schedule,         \* IDkgImpl.schedule, the RoundRobin index
    loader,           \* complaint handler: transcript loader state per transcript
    elapsed,          \* seconds since IDkgImpl.last_transcript_purge_ts
    gossiped,         \* number of artifacts received so far
    scenario,         \* the family of artifacts the peers send in this behaviour
    ran,              \* the sub-engines run by the ticks so far, latest last
    ret,              \* the change set returned by on_state_change in this step
    retain_arg,       \* arguments of the retain_active_transcripts calls of this step
    metrics,          \* IDkgClientMetrics: the counters of purge_inactive_transcripts
    instances,        \* ApiState.instances: one InstanceState per instance id
    graph,            \* ApiState.graph: state label -> op id -> (new label, output)
    progress_threads, \* ApiState.progress_threads: one Option<ProgressThread> each
    threads,          \* the spawned auto-progress tasks: position, operation, channel
    bg_tasks,         \* the blocking background tasks that are computing
    api_calls,        \* the calls of update, stop_progress, delete_instance in flight
    reply             \* the UpdateResult returned to a client in this step

prio_vars == <<p_attr, p_subnet_id, p_args, p_result, p_state, dropped_adverts>>

pool_vars == <<unvalidated, validated>>

block_vars == <<finalized_height, requested, finished, dealers>>

state_vars == <<certified_height, requests, served>>

driver_vars == <<schedule, loader, elapsed, ran, ret, retain_arg, metrics>>

env_vars == <<gossiped, scenario>>

api_vars == <<instances, graph, progress_threads, threads, bg_tasks, api_calls,
             reply>>

vars == <<prio_vars, pool_vars, block_vars, state_vars, driver_vars, env_vars,
          api_vars>>

(***************************************************************************)
(* The artifact pool, the block reader, the certified state and the crypto *)
(* oracle as seen by this replica.                                         *)
(***************************************************************************)

\* Largest finalized height.
MaxHeight == 2

\* Largest number of artifacts received from peers in one behaviour.
MaxGossip == 2

\* This replica, IDkgImpl::new(node_id, ..).
Self == "n1"

Nodes == {"n1", "n2", "n3"}

ConfigIds == {"c1", "c2"}

KeyTranscript == "key"

\* Transcript configs (params) of the blocks: c1 is a random unmasked config,
\* c2 a product config that depends on the transcript of c1.
Params ==
    [c1 |-> [source_height |-> 1, dealers |-> Nodes, receivers |-> Nodes,
             deps |-> {}],
     c2 |-> [source_height |-> 2, dealers |-> Nodes,
             receivers |-> Nodes \ {Self}, deps |-> {"c1"}]]

\* Signature requests: their RequestId.height, signer set and pre-signature.
SigRequests ==
    [r1 |-> [height |-> 1, signers |-> Nodes, pre_signature |-> "c1"],
     r2 |-> [height |-> 2, signers |-> Nodes \ {Self}, pre_signature |-> "c2"]]

RequestIds == DOMAIN SigRequests

\* IDkgTranscriptId::source_height of the transcripts of the pool model.
SourceHeight(t) == IF t \in ConfigIds THEN Params[t].source_height ELSE 0

\* Artifact contents: "a" and "b" are two well-formed contents, "x" fails
\* public verification; a dealing with content "b" is publicly valid but does
\* not encrypt a good share for this replica.
Bodies == {"a", "b", "x"}

BodyRank == [x |-> 0, a |-> 1, b |-> 2]

\* enum IDkgMessage: every artifact names what it refers to (a config, a
\* request or a transcript), whom it is about, its author and its content.
IDkgMessage(kind, id, about, author, body) ==
    [kind |-> kind, id |-> id, about |-> about, author |-> author, body |-> body]

Dealing(c, dealer, body) == IDkgMessage("Dealing", c, dealer, dealer, body)

DealingSupport(c, dealer, signer, body) ==
    IDkgMessage("DealingSupport", c, dealer, signer, body)

SigShare(r, signer, body) == IDkgMessage("SigShare", r, "-", signer, body)

Complaint(t, complainer, body) ==
    IDkgMessage("Complaint", t, "-", complainer, body)

Opening(t, complainer, opener, body) ==
    IDkgMessage("Opening", t, complainer, opener, body)

\* The artifacts peers advertise and deliver to this replica: dealings of n2
\* for both configs, its support for the dealings of c1, its shares for r1,
\* complaints of n2 and n3 about c1 and the openings of n2 that answer the
\* complaints of this replica and of n3.
GossipMessages ==
    {Dealing(c, "n2", b) : c \in ConfigIds, b \in Bodies}
        \cup {DealingSupport("c1", d, "n2", b) : d \in {Self, "n2"}, b \in Bodies}
        \cup {SigShare(r, "n2", b) : r \in RequestIds, b \in Bodies}
        \cup {Complaint("c1", "n2", b) : b \in Bodies}
        \cup {Complaint("c1", "n3", "a")}
        \cup {Opening("c1", Self, "n2", b) : b \in Bodies}
        \cup {Opening("c1", "n3", "n2", "a")}

\* Crypto oracle: verify_dealing_public, verify_support, verify_signature_share,
\* verify_complaint, verify_opening.
verify_public(m) == m.body # "x"

\* Crypto oracle: verify_dealing_private.
verify_dealing_private(d) == d.body = "a"

\* The artifacts of one behaviour are those of one sub-engine: dealings and
\* their support, signature shares, or complaints and their openings.
Scenarios ==
    {{"Dealing", "DealingSupport"}, {"SigShare"}, {"Complaint", "Opening"}}

\* The key under which the validated bag holds at most one artifact per author.
SameKey(m, n) ==
    /\ m.kind = n.kind
    /\ m.id = n.id
    /\ m.about = n.about
    /\ m.author = n.author

\* IDkgChangeAction
AddToValidated(m) == [action |-> "AddToValidated", msg |-> m]

MoveToValidated(m) == [action |-> "MoveToValidated", msg |-> m]

RemoveValidated(m) == [action |-> "RemoveValidated", msg |-> m]

RemoveUnvalidated(m) == [action |-> "RemoveUnvalidated", msg |-> m]

(***************************************************************************)
(* The sub-engines.  Each reads the pool, the block reader and the         *)
(* certified state and returns a change set.                               *)
(***************************************************************************)

\* Number of validated openings that makes a transcript recoverable.
OpeningThreshold == 1

HasValidated(m) == \E n \in validated : SameKey(m, n)

IsFirstOfEqualBody(m) ==
    \A n \in unvalidated : SameKey(m, n) => BodyRank[m.body] <= BodyRank[m.body]

\* m is the first, in the pool's deterministic order, of the unvalidated
\* artifacts with its key.
IsFirst(m) ==
    \A n \in unvalidated : SameKey(m, n) => BodyRank[m.body] <= BodyRank[n.body]

ValidateUngated(kind, ids) ==
    {IF ~HasValidated(m) /\ IsFirst(m) /\ verify_public(m)
     THEN MoveToValidated(m) ELSE RemoveUnvalidated(m) :
        m \in {u \in unvalidated : u.kind = kind}}

ValidateDuplicates(kind, ids) ==
    {IF IsFirst(m) /\ verify_public(m)
     THEN MoveToValidated(m) ELSE RemoveUnvalidated(m) :
        m \in {u \in unvalidated : u.kind = kind /\ u.id \in ids}}

\* Validation of the unvalidated artifacts of one kind that refer to one of
\* `ids` (the active configs or the requests of the certified state): the
\* first of each key is verified and moved or removed, the others are removed.
Validate(kind, ids) ==
    {IF ~HasValidated(m) /\ IsFirst(m) /\ verify_public(m)
     THEN MoveToValidated(m) ELSE RemoveUnvalidated(m) :
        m \in {u \in unvalidated : u.kind = kind /\ u.id \in ids}}

StaleTranscriptBelowTip(m) ==
    m.id \notin requested /\ SourceHeight(m.id) < finalized_height

StaleTranscriptInactive(m) == m.id \notin requested

\* A dealing, support, complaint or opening is stale when its config is not
\* active and its source height is not above the finalized tip.
StaleTranscript(m) ==
    m.id \notin requested /\ SourceHeight(m.id) <= finalized_height

StaleRequestAnyHeight(m) == m.id \notin requests

\* A signature share is stale when its request has left the certified state
\* and its height is not above the certified height.
StaleRequest(m) ==
    m.id \notin requests /\ SigRequests[m.id].height <= certified_height

PurgeTranscriptsValidatedOnly(kinds) ==
    {RemoveValidated(m) : m \in {v \in validated :
                                    v.kind \in kinds /\ StaleTranscript(v)}}

PurgeTranscripts(kinds) ==
    {RemoveValidated(m) : m \in {v \in validated :
                                    v.kind \in kinds /\ StaleTranscript(v)}}
        \cup {RemoveUnvalidated(m) : m \in {u \in unvalidated :
                                    u.kind \in kinds /\ StaleTranscript(u)}}

PurgeShares ==
    {RemoveValidated(m) : m \in {v \in validated :
                                    v.kind = "SigShare" /\ StaleRequest(v)}}
        \cup {RemoveUnvalidated(m) : m \in {u \in unvalidated :
                                    u.kind = "SigShare" /\ StaleRequest(u)}}

\* Transcript loader (IDkgComplaintHandler::as_transcript_loader).
EnoughOpenings(t) ==
    Cardinality({m.author : m \in {o \in validated :
        o.kind = "Opening" /\ o.id = t /\ o.about = Self}}) >= OpeningThreshold

\* A load of t that starts from scratch succeeds when the crypto oracle
\* decrypts the transcript locally, or when the validated openings reach the
\* threshold (quorum rule).
LoadSucceeds(t, decrypt) == t \in decrypt \/ EnoughOpenings(t)

LoadNextWithoutQuorum(t, decrypt) ==
    CASE loader[t] = "Absent" ->
            IF t \in decrypt THEN "Loaded" ELSE "ComplaintEmitted"
      [] loader[t] = "ComplaintEmitted" -> "ComplaintEmitted"
      [] OTHER -> loader[t]

LoadNextRecoversAtOnce(t, decrypt) ==
    CASE loader[t] = "Absent" ->
            IF t \in decrypt THEN "Loaded"
            ELSE IF EnoughOpenings(t) THEN "Recovered" ELSE "ComplaintEmitted"
      [] loader[t] = "ComplaintEmitted" ->
            IF EnoughOpenings(t) THEN "Recovered" ELSE "ComplaintEmitted"
      [] OTHER -> loader[t]

\* The loader's state for t after a load; `decrypt` holds the transcripts the
\* crypto oracle loads without openings.
LoadNext(t, decrypt) ==
    CASE loader[t] = "Absent" ->
            IF LoadSucceeds(t, decrypt) THEN "Loaded" ELSE "ComplaintEmitted"
      [] loader[t] = "ComplaintEmitted" ->
            IF EnoughOpenings(t) THEN "Recovered" ELSE "ComplaintEmitted"
      [] OTHER -> loader[t]

LoadOk(t, decrypt) == LoadNext(t, decrypt) \in {"Loaded", "Recovered"}

LoadComplaints(t, decrypt) ==
    IF /\ loader[t] = "Absent"
       /\ ~LoadSucceeds(t, decrypt)
       /\ ~HasValidated(Complaint(t, Self, "a"))
    THEN {AddToValidated(Complaint(t, Self, "a"))} ELSE {}

DealingsToSendAnyNode ==
    {c \in requested : ~HasValidated(Dealing(c, Self, "a"))}

\* Pre-signer: the configs this replica has to deal for.
DealingsToSend ==
    {c \in requested : /\ Self \in dealers[c]
                       /\ ~HasValidated(Dealing(c, Self, "a"))}

SendDealingsDespiteFailure(decrypt) ==
    UNION {{AddToValidated(Dealing(c, Self, "a"))}
              \cup UNION {LoadComplaints(t, decrypt) : t \in Params[c].deps} :
              c \in DealingsToSend}

send_dealings(decrypt) ==
    UNION {IF \A t \in Params[c].deps : LoadOk(t, decrypt)
           THEN {AddToValidated(Dealing(c, Self, "a"))}
           ELSE UNION {LoadComplaints(t, decrypt) : t \in Params[c].deps} :
              c \in DealingsToSend}

validate_dealings == Validate("Dealing", requested)

DealingsToSupportAnyNode ==
    {d \in validated : /\ d.kind = "Dealing"
                       /\ d.id \in requested
                       /\ ~HasValidated(DealingSupport(d.id, d.author, Self, "a"))}

\* Pre-signer: the validated dealings this replica has to support.
DealingsToSupport ==
    {d \in validated : /\ d.kind = "Dealing"
                       /\ d.id \in requested
                       /\ Self \in Params[d.id].receivers
                       /\ ~HasValidated(DealingSupport(d.id, d.author, Self, "a"))}

SendSupportUnverified ==
    {AddToValidated(DealingSupport(d.id, d.author, Self, "a")) :
        d \in DealingsToSupport}

SendSupportRecomplain ==
    UNION {IF verify_dealing_private(d)
           THEN {AddToValidated(DealingSupport(d.id, d.author, Self, "a"))}
           ELSE {AddToValidated(Complaint(d.id, Self, "a"))} :
              d \in DealingsToSupport}

send_dealing_support ==
    UNION {IF verify_dealing_private(d)
           THEN {AddToValidated(DealingSupport(d.id, d.author, Self, "a"))}
           ELSE IF HasValidated(Complaint(d.id, Self, "a"))
                THEN {}
                ELSE {AddToValidated(Complaint(d.id, Self, "a"))} :
              d \in DealingsToSupport}

validate_dealing_support == Validate("DealingSupport", requested)

purge_dealings == PurgeTranscripts({"Dealing", "DealingSupport"})

\* IDkgPreSigner::on_state_change
PreSignerChangeSet(decrypt) ==
    send_dealings(decrypt) \cup validate_dealings \cup send_dealing_support
        \cup validate_dealing_support \cup purge_dealings

PreSignerLoads == UNION {Params[c].deps : c \in DealingsToSend}

SharesToSendAgain ==
    {r \in requests : /\ Self \in SigRequests[r].signers
                      /\ SigRequests[r].pre_signature \in finished}

\* Signer: the requests this replica has to sign.
SharesToSend ==
    {r \in requests : /\ Self \in SigRequests[r].signers
                      /\ SigRequests[r].pre_signature \in finished
                      /\ ~HasValidated(SigShare(r, Self, "a"))}

SigInputs(r) == {SigRequests[r].pre_signature, KeyTranscript}

SendSharesAnyInput(decrypt) ==
    UNION {IF \E t \in SigInputs(r) : LoadOk(t, decrypt)
           THEN {AddToValidated(SigShare(r, Self, "a"))}
           ELSE UNION {LoadComplaints(t, decrypt) : t \in SigInputs(r)} :
              r \in SharesToSend}

send_signature_shares(decrypt) ==
    UNION {IF \A t \in SigInputs(r) : LoadOk(t, decrypt)
           THEN {AddToValidated(SigShare(r, Self, "a"))}
           ELSE UNION {LoadComplaints(t, decrypt) : t \in SigInputs(r)} :
              r \in SharesToSend}

validate_signature_shares == Validate("SigShare", requests)

\* ThresholdSigner::on_state_change
SignerChangeSet(decrypt) ==
    send_signature_shares(decrypt) \cup validate_signature_shares
        \cup PurgeShares

SignerLoads == UNION {SigInputs(r) : r \in SharesToSend}

validate_complaints == Validate("Complaint", requested)

ComplaintsToOpenPerTranscript ==
    {c \in validated : /\ c.kind = "Complaint"
                       /\ c.id \in requested
                       /\ \A n \in Nodes :
                              ~HasValidated(Opening(c.id, n, Self, "a"))}

\* Complaint handler: the validated complaints this replica has to answer.
ComplaintsToOpen ==
    {c \in validated : /\ c.kind = "Complaint"
                       /\ c.id \in requested
                       /\ ~HasValidated(Opening(c.id, c.author, Self, "a"))}

send_openings ==
    {AddToValidated(Opening(c.id, c.author, Self, "a")) : c \in ComplaintsToOpen}

validate_openings == Validate("Opening", requested)

purge_complaints == PurgeTranscripts({"Complaint", "Opening"})

\* IDkgComplaintHandler::on_state_change
ComplaintHandlerChangeSet ==
    validate_complaints \cup send_openings \cup validate_openings
        \cup purge_complaints

(***************************************************************************)
(* The driver IDkgImpl and its environment.                                *)
(***************************************************************************)

\* pub(crate) const INACTIVE_TRANSCRIPT_PURGE_SECS: Duration = from_secs(60)
INACTIVE_TRANSCRIPT_PURGE_SECS == 60

\* The clock is followed up to this many seconds after the last purge.
MaxElapsed == 61

\* Seconds by which the clock advances between two ticks.
ClockSteps == {30, 59}

\* Largest total of the purge counters up to which the clock keeps advancing.
MaxMetrics == 3

TranscriptIds == ConfigIds \cup {KeyTranscript}

CallsSignerFirst == <<"signer", "pre_signer", "complaint_handler">>

\* on_state_change: let calls = [&pre_signer, &signer, &complaint_handler]
calls == <<"pre_signer", "signer", "complaint_handler">>

\* RoundRobin::call_next: the index of the call after index i.
NextIndex(i) == (i + 1) % Len(calls)

\* The closures pre_signer, signer and complaint_handler of on_state_change.
ChangeSetOf(engine, decrypt) ==
    CASE engine = "pre_signer" -> PreSignerChangeSet(decrypt)
      [] engine = "signer" -> SignerChangeSet(decrypt)
      [] engine = "complaint_handler" -> ComplaintHandlerChangeSet

\* The transcripts the sub-engine asks the transcript loader for.
LoadsOf(engine) ==
    CASE engine = "pre_signer" -> PreSignerLoads
      [] engine = "signer" -> SignerLoads
      [] engine = "complaint_handler" -> {}

\* IDkgPool::apply: the validated and the unvalidated bag after a change set.
ApplyValidated(cs) ==
    (validated \cup {op.msg : op \in {o \in cs :
        o.action \in {"AddToValidated", "MoveToValidated"}}})
        \ {op.msg : op \in {o \in cs : o.action = "RemoveValidated"}}

ApplyUnvalidatedKeepsMoved(cs) ==
    unvalidated \ {op.msg : op \in {o \in cs : o.action = "RemoveUnvalidated"}}

ApplyUnvalidated(cs) ==
    unvalidated \ {op.msg : op \in {o \in cs :
        o.action \in {"MoveToValidated", "RemoveUnvalidated"}}}

\* block_reader.active_transcripts(): the references of the finalized tip.
TranscriptRef(t) == [height |-> SourceHeight(t), transcript_id |-> t]

active_transcripts == {TranscriptRef(t) : t \in finished \cup {KeyTranscript}}

\* block_reader.transcript(ref), when it resolves.
ResolvedTranscript(ref) == [transcript_id |-> ref.transcript_id, resolved |-> TRUE]

NoMetrics ==
    [resolve_active_transcript_refs |-> 0,
     resolve_active_transcript_refs_errors |-> 0,
     retain_active_transcripts |-> 0,
     retain_active_transcripts_transient |-> 0,
     critical_error_ecdsa_retain_active_transcripts |-> 0]

MetricsTotal ==
    metrics.resolve_active_transcript_refs
        + metrics.resolve_active_transcript_refs_errors
        + metrics.retain_active_transcripts
        + metrics.retain_active_transcripts_transient
        + metrics.critical_error_ecdsa_retain_active_transcripts

RetainedResolvable(unresolved) ==
    {{ResolvedTranscript(ref) : ref \in active_transcripts \ unresolved}}

\* purge_inactive_transcripts: the arguments of the calls of
\* retain_active_transcripts it makes; `unresolved` are the references the
\* block reader fails to resolve.
Retained(unresolved) ==
    IF active_transcripts \cap unresolved # {}
    THEN {}
    ELSE {{ResolvedTranscript(ref) : ref \in active_transcripts}}

PurgeMetricsErrorOnce(unresolved, crypto_result) ==
    LET errors == IF active_transcripts \cap unresolved = {} THEN 0 ELSE 1
        resolved == Cardinality(active_transcripts \ unresolved)
        counted == [metrics EXCEPT
            !.resolve_active_transcript_refs = @ + resolved,
            !.resolve_active_transcript_refs_errors = @ + errors]
    IN  IF errors > 0 THEN counted
        ELSE CASE crypto_result = "Ok" ->
                    [counted EXCEPT !.retain_active_transcripts = @ + 1]
               [] crypto_result = "TransientInternalError" ->
                    [counted EXCEPT !.retain_active_transcripts_transient = @ + 1]
               [] OTHER ->
                    [counted EXCEPT
                        !.critical_error_ecdsa_retain_active_transcripts = @ + 1]

\* purge_inactive_transcripts: the counters after the attempt.
PurgeMetrics(unresolved, crypto_result) ==
    LET errors == Cardinality(active_transcripts \cap unresolved)
        resolved == Cardinality(active_transcripts \ unresolved)
        counted == [metrics EXCEPT
            !.resolve_active_transcript_refs = @ + resolved,
            !.resolve_active_transcript_refs_errors = @ + errors]
    IN  IF errors > 0 THEN counted
        ELSE CASE crypto_result = "Ok" ->
                    [counted EXCEPT !.retain_active_transcripts = @ + 1]
               [] crypto_result = "TransientInternalError" ->
                    [counted EXCEPT !.retain_active_transcripts_transient = @ + 1]
               [] OTHER ->
                    [counted EXCEPT
                        !.critical_error_ecdsa_retain_active_transcripts = @ + 1]

\* Result<(), IDkgRetainKeysError> of retain_active_transcripts.
CryptoResults ==
    {"Ok", "TransientInternalError", "InternalError", "SerializationError"}

PurgeDueAfterPeriod == elapsed > INACTIVE_TRANSCRIPT_PURGE_SECS

PurgeDue == elapsed >= INACTIVE_TRANSCRIPT_PURGE_SECS

TickFailsOnFatalError(decrypt, unresolved, crypto_result) ==
    LET engine == calls[schedule + 1]
        changeset == IF /\ PurgeDue
                        /\ unresolved = {}
                        /\ crypto_result = "InternalError"
                     THEN {} ELSE ChangeSetOf(engine, decrypt)
    IN  /\ decrypt \subseteq {t \in LoadsOf(engine) : loader[t] = "Absent"}
        /\ unresolved \subseteq active_transcripts
        /\ ~PurgeDue => unresolved = {} /\ crypto_result = "Ok"
        /\ schedule' = NextIndex(schedule)
        /\ loader' = [t \in TranscriptIds |->
                         IF t \in LoadsOf(engine)
                         THEN LoadNext(t, decrypt) ELSE loader[t]]
        /\ validated' = ApplyValidated(changeset)
        /\ unvalidated' = ApplyUnvalidated(changeset)
        /\ ret' = changeset
        /\ ran' = IF Len(ran) < Len(calls)
                  THEN Append(ran, engine) ELSE Append(Tail(ran), engine)
        /\ IF PurgeDue
           THEN /\ retain_arg' = Retained(unresolved)
                /\ metrics' = PurgeMetrics(unresolved, crypto_result)
                /\ elapsed' = 0
           ELSE /\ retain_arg' = {}
                /\ UNCHANGED <<metrics, elapsed>>
        /\ UNCHANGED <<prio_vars, block_vars, state_vars, env_vars, api_vars>>

\* IDkgImpl::on_state_change, followed by the pool applying the change set.
Tick(decrypt, unresolved, crypto_result) ==
    LET engine == calls[schedule + 1]
        changeset == ChangeSetOf(engine, decrypt)
    IN  /\ decrypt \subseteq {t \in LoadsOf(engine) : loader[t] = "Absent"}
        /\ unresolved \subseteq active_transcripts
        /\ ~PurgeDue => unresolved = {} /\ crypto_result = "Ok"
        /\ schedule' = NextIndex(schedule)
        /\ loader' = [t \in TranscriptIds |->
                         IF t \in LoadsOf(engine)
                         THEN LoadNext(t, decrypt) ELSE loader[t]]
        /\ validated' = ApplyValidated(changeset)
        /\ unvalidated' = ApplyUnvalidated(changeset)
        /\ ret' = changeset
        /\ ran' = IF Len(ran) < Len(calls)
                  THEN Append(ran, engine) ELSE Append(Tail(ran), engine)
        /\ IF PurgeDue
           THEN /\ retain_arg' = Retained(unresolved)
                /\ metrics' = PurgeMetrics(unresolved, crypto_result)
                /\ elapsed' = 0
           ELSE /\ retain_arg' = {}
                /\ UNCHANGED <<metrics, elapsed>>
        /\ UNCHANGED <<prio_vars, block_vars, state_vars, env_vars, api_vars>>

\* A step of the environment calls neither on_state_change nor the crypto
\* oracle: it returns no change set and leaves the driver as it is.
NoCall ==
    /\ ret' = {}
    /\ retain_arg' = {}
    /\ UNCHANGED <<schedule, loader, elapsed, ran, metrics>>

\* An artifact arrives from a peer and enters the unvalidated bag.
Gossip(m) ==
    /\ gossiped < MaxGossip
    /\ m.kind \in scenario
    /\ m \notin unvalidated \cup validated
    /\ unvalidated' = unvalidated \cup {m}
    /\ gossiped' = gossiped + 1
    /\ NoCall
    /\ UNCHANGED <<prio_vars, validated, block_vars, state_vars, scenario,
                   api_vars>>

\* A new block is finalized.
AdvanceFinalized ==
    /\ finalized_height < MaxHeight
    /\ finalized_height' = finalized_height + 1
    /\ UNCHANGED <<prio_vars, pool_vars, requested, finished, dealers,
                   state_vars, env_vars, api_vars>>
    /\ NoCall

\* The finalized tip carries a new config.
RequestTranscript(c) ==
    /\ c \notin requested \cup finished
    /\ Params[c].source_height <= finalized_height
    /\ Params[c].deps \subseteq finished
    /\ requested' = requested \cup {c}
    /\ UNCHANGED <<prio_vars, pool_vars, finalized_height, finished, dealers,
                   state_vars, env_vars, api_vars>>
    /\ NoCall

\* The finalized tip carries the completed transcript of a config.
CompleteTranscript(c) ==
    /\ c \in requested
    /\ requested' = requested \ {c}
    /\ finished' = finished \cup {c}
    /\ UNCHANGED <<prio_vars, pool_vars, finalized_height, dealers, state_vars,
                   env_vars, api_vars>>
    /\ NoCall

\* A new state is certified.
AdvanceCertified ==
    /\ "SigShare" \in scenario
    /\ certified_height < finalized_height
    /\ certified_height' = certified_height + 1
    /\ UNCHANGED <<prio_vars, pool_vars, block_vars, requests, served,
                   env_vars, api_vars>>
    /\ NoCall

\* The certified state holds a new request matched to a pre-signature.
NewRequest(r) ==
    /\ "SigShare" \in scenario
    /\ r \notin requests \cup served
    /\ SigRequests[r].height <= certified_height
    /\ requests' = requests \cup {r}
    /\ UNCHANGED <<prio_vars, pool_vars, block_vars, certified_height, served,
                   env_vars, api_vars>>
    /\ NoCall

\* A request is answered and leaves the certified state.
CompleteRequest(r) ==
    /\ "SigShare" \in scenario
    /\ r \in requests
    /\ requests' = requests \ {r}
    /\ served' = served \cup {r}
    /\ UNCHANGED <<prio_vars, pool_vars, block_vars, certified_height,
                   env_vars, api_vars>>
    /\ NoCall

\* Time passes between two ticks.
TimePasses(d) ==
    /\ MetricsTotal < MaxMetrics
    /\ elapsed < MaxElapsed
    /\ elapsed' = IF elapsed + d > MaxElapsed THEN MaxElapsed ELSE elapsed + d
    /\ ret' = {}
    /\ retain_arg' = {}
    /\ UNCHANGED <<prio_vars, pool_vars, block_vars, state_vars, schedule,
                   loader, ran, metrics, env_vars, api_vars>>

AttrLabels == TranscriptKinds \cup SigShareKinds

\* ---------------------------------------------------------------------------
\* PocketIC server: ApiState (pocket_ic_server/src/state_api/state.rs)
\* ---------------------------------------------------------------------------

\* Bounds of the PocketIC universe.
MaxInstances == 1
MaxLabel == 1
MaxCalls == 2

\* Instance ids are indices into ApiState.instances, counted from 0; the
\* largest id of the universe never names an instance.
InstanceIds == 0 .. MaxInstances

StateLabels == 0 .. MaxLabel

\* Operations a client submits, and the two the auto-progress loop submits.
ClientOps == {"op1", "op2"}

ProgressOps == {"AdvanceTimeAndTick", "GetCanisterHttp"}

\* enum InstanceState. An Available instance holds the PocketIc, of which the
\* model keeps the state label.
Available(pocket_ic) == [tag |-> "Available", pocket_ic |-> pocket_ic]

Busy(state_label, op_id) ==
    [tag |-> "Busy", state_label |-> state_label, op_id |-> op_id]

Deleted == [tag |-> "Deleted"]

\* type UpdateResult: the three variants of UpdateReply, or an UpdateError.
UpdateReplyBusy(state_label, op_id) ==
    [tag |-> "Busy", state_label |-> state_label, op_id |-> op_id]

UpdateReplyStarted(state_label, op_id) ==
    [tag |-> "Started", state_label |-> state_label, op_id |-> op_id]

UpdateReplyOutput == [tag |-> "Output"]

UpdateError(message) == [tag |-> "Err", message |-> message]

\* No update has returned to a client in this step.
NoReply == [tag |-> "none"]

\* The instance state under an id, where the id names one.
Exists(instance_id) == instance_id + 1 \in DOMAIN instances

InstanceOf(instance_id) == instances[instance_id + 1]

\* type Computations, flattened: one entry per (state label, op id).
GraphEntry(state_label, op_id, new_state_label, out) ==
    [state_label |-> state_label, op_id |-> op_id,
     new_state_label |-> new_state_label, out |-> out]

GraphGet(state_label, op_id) ==
    {e \in graph : e.state_label = state_label /\ e.op_id = op_id}

GraphInsert(state_label, op_id, new_state_label, out) ==
    {e \in graph : ~(e.state_label = state_label /\ e.op_id = op_id)}
        \cup {GraphEntry(state_label, op_id, new_state_label, out)}

\* ApiState::read_result: the entry of the graph, if there is one.
read_result(state_label, op_id) == GraphGet(state_label, op_id) # {}

\* The spawned auto-progress task of an instance: where it stands, which
\* operation it is executing, the reply its update falls back to, and whether
\* a stop message sits in its channel.
ThreadAt(pc, op, busy_outcome, rx) ==
    [pc |-> pc, op |-> op, busy_outcome |-> busy_outcome, rx |-> rx]

NoThread == ThreadAt("none", "AdvanceTimeAndTick", NoReply, FALSE)

\* A call in flight: an update awaiting its background task, or a
\* stop_progress or delete_instance between two of its await points.
ApiCall(fn, instance_id, pc, busy_outcome) ==
    [fn |-> fn, instance_id |-> instance_id, pc |-> pc,
     busy_outcome |-> busy_outcome]

\* PocketIcApiStateBuilder::build without initial instances.
ApiStateBuild ==
    /\ instances = <<>>
    /\ graph = {}
    /\ progress_threads = <<>>
    /\ threads = <<>>
    /\ bg_tasks = {}
    /\ api_calls = {}
    /\ reply = NoReply

\* The blocks carry the configs of Params.
ParamsDealers == dealers = [c \in ConfigIds |-> Params[c].dealers]

\* No advert is being ranked.
PriorityIdle ==
    /\ p_attr = [kind |-> "Dealing", id |-> IDkgTranscriptId(1, 1, 0)]
    /\ p_subnet_id = 1
    /\ p_args = [finalized_height |-> 0, certified_height |-> 0,
                 requested_transcripts |-> {}, requested_signatures |-> {},
                 active_transcripts |-> {}]
    /\ p_result = "none"
    /\ p_state = "none"
    /\ dropped_adverts = [l \in AttrLabels |-> 0]

\* IDkgImpl::new with an empty pool, at the genesis block.
DriverInit ==
    /\ unvalidated = {}
    /\ validated = {}
    /\ finalized_height = 0
    /\ requested = {}
    /\ finished = {}
    /\ certified_height = 0
    /\ requests = {}
    /\ served = {}
    /\ schedule = 0
    /\ loader = [t \in TranscriptIds |-> "Absent"]
    /\ elapsed = 0
    /\ ran = <<>>
    /\ ret = {}
    /\ retain_arg = {}
    /\ metrics = NoMetrics

Init ==
    /\ PriorityIdle
    /\ DriverInit
    /\ scenario \in Scenarios
    /\ gossiped = 0
    /\ ApiStateBuild
    /\ ParamsDealers

OnStateChange ==
    \E decrypt \in SUBSET {t \in LoadsOf(calls[schedule + 1]) :
                               loader[t] = "Absent"},
       unresolved \in IF PurgeDue THEN SUBSET active_transcripts ELSE {{}},
       crypto_result \in IF PurgeDue THEN CryptoResults ELSE {"Ok"} :
        Tick(decrypt, unresolved, crypto_result)

Intent ==
    \/ AdvanceFinalized
    \/ AdvanceCertified
    \/ \E c \in ConfigIds : RequestTranscript(c)
    \/ \E c \in ConfigIds : CompleteTranscript(c)
    \/ \E r \in RequestIds : NewRequest(r)
    \/ \E r \in RequestIds : CompleteRequest(r)

Next ==
    \/ OnStateChange
    \/ \E m \in GossipMessages : Gossip(m)
    \/ Intent

Spec == Init /\ [][Next]_vars

\* The priority function as built by get_priority_function: one snapshot, one
\* subnet id, an advert to rank; no advert ranked yet.
PriorityInit ==
    /\ p_attr \in IDkgMessageAttribute
    /\ p_subnet_id \in Subnets
    /\ p_args \in IDkgPriorityFnArgs
    /\ p_result = "none"
    /\ p_state = "none"
    /\ dropped_adverts = [l \in AttrLabels |-> 0]
    /\ DriverInit
    /\ scenario = {"SigShare"}
    /\ gossiped = 0
    /\ ApiStateBuild
    /\ ParamsDealers

GetPriorityThrottled ==
    LET prio == compute_priority(p_attr, p_subnet_id, p_args)
    IN  /\ prio = "Drop" => dropped_adverts[p_attr.kind] < MaxDropped
        /\ p_result' = IF prio = "Drop" /\ dropped_adverts[p_attr.kind] > 0
                        THEN "Stash" ELSE prio
        /\ dropped_adverts' =
               IF prio = "Drop"
               THEN [dropped_adverts EXCEPT ![p_attr.kind] = @ + 1]
               ELSE dropped_adverts
        /\ UNCHANGED <<p_attr, p_subnet_id, p_args, p_state, pool_vars,
                       block_vars, state_vars, driver_vars, env_vars, api_vars>>

\* One call of the closure returned by get_priority_function.
GetPriority ==
    LET prio == compute_priority(p_attr, p_subnet_id, p_args)
    IN  /\ prio = "Drop" => dropped_adverts[p_attr.kind] < MaxDropped
        /\ p_result' = prio
        /\ dropped_adverts' =
               IF prio = "Drop"
               THEN [dropped_adverts EXCEPT ![p_attr.kind] = @ + 1]
               ELSE dropped_adverts
        /\ UNCHANGED <<p_attr, p_subnet_id, p_args, p_state, pool_vars,
                       block_vars, state_vars, driver_vars, env_vars, api_vars>>

PriorityNext == GetPriority

SpecPriority == PriorityInit /\ [][PriorityNext]_vars

\* The driver with its clock: time passes and the block reader changes, no
\* artifact arrives from peers.
RetentionInit == Init /\ scenario = {"Dealing", "DealingSupport"}

BlockIntent ==
    \/ AdvanceFinalized
    \/ \E c \in ConfigIds : RequestTranscript(c)
    \/ \E c \in ConfigIds : CompleteTranscript(c)

RetentionNext ==
    \/ OnStateChange
    \/ \E d \in ClockSteps : TimePasses(d)
    \/ BlockIntent

SpecRetention == RetentionInit /\ [][RetentionNext]_vars

(***************************************************************************)
(* Properties.                                                             *)
(***************************************************************************)

\* The key the pool invariant of the data model names for each kind; for an
\* opening it is (transcript_id, opener).
SamePoolKey(m, n) ==
    /\ m.kind = n.kind
    /\ m.id = n.id
    /\ m.author = n.author
    /\ m.kind = "DealingSupport" => m.about = n.about

\* C1 as stated: the validated bag never holds two dealings of one dealer for
\* one config, two supports of one signer for one (config, dealer), two shares
\* of one signer for one request, two complaints of one complainer for one
\* transcript, or two openings of one opener for one transcript.
C1_UniquePerOpener ==
    \A m, n \in validated : SamePoolKey(m, n) => m = n

\* C1 (amended): as above, but the openings of one opener for one transcript
\* are unique per complainer: the validated bag never holds two openings of
\* one opener for one (transcript, complainer).
C1_Uniqueness ==
    \A m, n \in validated : SameKey(m, n) => m = n

\* This replica has answered the complaints of two complainers about one
\* transcript with one opening each.
C1_Witness ==
    \E m, n \in validated :
        /\ m.kind = "Opening" /\ n.kind = "Opening"
        /\ m.author = Self /\ n.author = Self
        /\ m.id = n.id
        /\ m.about # n.about

InIntent(m) ==
    IF m.kind = "SigShare" THEN m.id \in requests ELSE m.id \in requested

OwnShares(cs) ==
    {op.msg.id : op \in {o \in cs : /\ o.action = "AddToValidated"
                                    /\ o.msg.kind = "SigShare"
                                    /\ o.msg.author = Self}}

\* C3: a tick queues a share of this replica for request R only if it is a
\* Signer tick, R is in the certified state, this replica is a signer of R,
\* the pre-signature of R is available in the finalized tip, and the loads of
\* the pre-signature and of the key transcript both succeeded in that tick.
C3_ShareInputs ==
    [][\A r \in OwnShares(ret') :
          /\ calls[schedule + 1] = "signer"
          /\ r \in requests
          /\ Self \in SigRequests[r].signers
          /\ SigRequests[r].pre_signature \in finished
          /\ loader'[SigRequests[r].pre_signature] \in {"Loaded", "Recovered"}
          /\ loader'[KeyTranscript] \in {"Loaded", "Recovered"}]_vars

\* This replica has just emitted a share, and in an earlier tick the load of
\* the config's dependency failed.
C3_Witness ==
    /\ OwnShares(ret) # {}
    /\ loader[KeyTranscript] = "Loaded"

\* C4: whenever purge_inactive_transcripts calls retain_active_transcripts the
\* argument holds the resolved transcript of every active transcript
\* reference, and an attempt in which a reference fails to resolve makes no
\* call at all.
C4_RetentionSafety ==
    [][/\ \A arg \in retain_arg' :
             \A ref \in active_transcripts : ResolvedTranscript(ref) \in arg
       /\ metrics'.resolve_active_transcript_refs_errors
              > metrics.resolve_active_transcript_refs_errors
          => retain_arg' = {}]_vars

\* A retention attempt has been aborted earlier and now one calls the crypto
\* oracle with the key transcript and a completed transcript.
C4_Witness ==
    /\ metrics.resolve_active_transcript_refs_errors > 0
    /\ retain_arg # {}
    /\ finished # {}

NextEngine(e) ==
    CASE e = "pre_signer" -> "signer"
      [] e = "signer" -> "complaint_handler"
      [] e = "complaint_handler" -> "pre_signer"

IsTick == schedule' # schedule

OwnDealing == Dealing("c1", Self, "a")

OwnSupport == DealingSupport("c1", Self, Self, "a")

\* The intent of the end-to-end scenario: c1 is the only active config.
ScenarioIntent == requested = {"c1"} /\ unvalidated = {}

FairInit ==
    /\ PriorityIdle
    /\ DriverInit
    /\ scenario \in Scenarios
    /\ gossiped = MaxGossip - 1
    /\ ApiStateBuild
    /\ ParamsDealers

FairSpec == FairInit /\ [][Next]_vars /\ WF_vars(OnStateChange)

StaleConfig(c) == c \in finished /\ SourceHeight(c) <= finalized_height

NoArtifacts(c) ==
    \A m \in validated \cup unvalidated :
        m.kind \in {"Dealing", "DealingSupport", "Complaint", "Opening"}
            => m.id # c

DealingArm(attr, subnet_id, args) ==
    LET t == attr.id
        h == t.source_height
    IN  IF t.source_subnet # subnet_id THEN "FetchNow"
        ELSE IF h <= args.finalized_height
             THEN (IF t \in args.requested_transcripts THEN "FetchNow" ELSE "Drop")
             ELSE IF h >= args.finalized_height + 10 THEN "Stash" ELSE "FetchNow"

\* C9: for Dealing(t) and DealingSupport(t) alike the priority is FetchNow if
\* t is of another subnet; else, with h the source height of t: if h is at
\* most the finalized height, FetchNow if t is requested and Drop if not; if
\* h is above it by less than 10, FetchNow; if by 10 or more, Stash.
C9_DealingPriority ==
    p_result # "none" /\ p_attr.kind \in {"Dealing", "DealingSupport"}
        => p_result = DealingArm(p_attr, p_subnet_id, p_args)

\* A dealing support of the own subnet, requested but too far ahead, is
\* stashed.
C9_Witness ==
    /\ p_attr.kind = "DealingSupport"
    /\ p_attr.id.source_subnet = p_subnet_id
    /\ p_result = "Stash"

ShareArm(r, certified, requested_sigs) ==
    IF r.height <= certified
    THEN (IF r \in requested_sigs THEN "FetchNow" ELSE "Drop")
    ELSE IF r.height >= certified + 10 THEN "Stash" ELSE "FetchNow"

\* C10: for EcdsaSigShare(r) and SchnorrSigShare(r) alike the priority is
\* decided by r.height, the certified height and the requested signatures
\* alone: at or below the certified height, FetchNow if r is requested and
\* Drop if not; above it by less than 10, FetchNow; by 10 or more, Stash.
C10_SigSharePriority ==
    p_result # "none" /\ p_attr.kind \in {"EcdsaSigShare", "SchnorrSigShare"}
        => p_result = ShareArm(p_attr.id, p_args.certified_height,
                               p_args.requested_signatures)

\* A Schnorr share is fetched although its height is above the finalized
\* height by more than the look-ahead would allow were it the reference.
C10_Witness ==
    /\ p_attr.kind = "SchnorrSigShare"
    /\ p_result = "Drop"
    /\ p_attr.id.height > p_args.finalized_height
    /\ p_args.requested_transcripts # {}
    /\ p_args.active_transcripts # {}

ComplaintArm(t, finalized, accepted) ==
    IF t.source_height <= finalized
    THEN (IF t \in accepted THEN "FetchNow" ELSE "Drop")
    ELSE IF t.source_height >= finalized + 10 THEN "Stash" ELSE "FetchNow"

\* C11: for Complaint(t) and Opening(t) alike, with h the source height of t:
\* if h is at most the finalized height, FetchNow when t is an active or a
\* requested transcript and Drop when it is neither; if h is above it by less
\* than 10, FetchNow; if by 10 or more, Stash.
C11_ComplaintPriority ==
    p_result # "none" /\ p_attr.kind \in {"Complaint", "Opening"}
        => p_result = ComplaintArm(p_attr.id, p_args.finalized_height,
                                   p_args.active_transcripts
                                       \cup p_args.requested_transcripts)

\* An opening for a transcript that is active but no longer requested, at a
\* height below the finalized height, is fetched.
C11_Witness ==
    /\ p_attr.kind = "Opening"
    /\ p_attr.id.source_height <= p_args.finalized_height
    /\ p_attr.id \in p_args.active_transcripts
    /\ p_attr.id \notin p_args.requested_transcripts
    /\ p_result = "FetchNow"

TranscriptIdOf(t) == IDkgTranscriptId(1, t, SourceHeight(t))

RequestIdOf(r) == RequestId(SigRequests[r].pre_signature, r, SigRequests[r].height)

\* snapshot.get_state().signature_request_contexts(): a context enters the
\* state at its height and is matched to a pre-signature later.
signature_request_contexts ==
    {[request |-> r, matched |-> r \in requests] :
        r \in {q \in RequestIds \ served :
                  SigRequests[q].height <= certified_height}}

\* get_context_request_id: the request id of a context matched to a
\* pre-signature, nothing for the others.
get_context_request_id(context) ==
    IF context.matched THEN {RequestIdOf(context.request)} ELSE {}

\* get_certified_state_snapshot(): Some(snapshot) or None.
Snapshots == {"Some", "None"}

IDkgPriorityFnArgsNewAllContexts(snapshot) ==
    [finalized_height |-> finalized_height,
     certified_height |-> IF snapshot = "Some" THEN certified_height ELSE 0,
     requested_transcripts |-> {TranscriptIdOf(c) : c \in requested},
     requested_signatures |->
        IF snapshot = "Some"
        THEN {RequestIdOf(context.request) :
                 context \in signature_request_contexts}
        ELSE {},
     active_transcripts |->
        {TranscriptIdOf(ref.transcript_id) : ref \in active_transcripts}]

IDkgPriorityFnArgsNewLastHeight(snapshot) ==
    [finalized_height |-> finalized_height,
     certified_height |-> certified_height,
     requested_transcripts |-> {TranscriptIdOf(c) : c \in requested},
     requested_signatures |->
        IF snapshot = "Some"
        THEN UNION {get_context_request_id(context) :
                       context \in signature_request_contexts}
        ELSE {},
     active_transcripts |->
        {TranscriptIdOf(ref.transcript_id) : ref \in active_transcripts}]

\* IDkgPriorityFnArgs::new(block_reader, state_reader)
IDkgPriorityFnArgsNew(snapshot) ==
    [finalized_height |-> finalized_height,
     certified_height |-> IF snapshot = "Some" THEN certified_height ELSE 0,
     requested_transcripts |-> {TranscriptIdOf(c) : c \in requested},
     requested_signatures |->
        IF snapshot = "Some"
        THEN UNION {get_context_request_id(context) :
                       context \in signature_request_contexts}
        ELSE {},
     active_transcripts |->
        {TranscriptIdOf(ref.transcript_id) : ref \in active_transcripts}]

\* IDkgGossipImpl::get_priority_function: a new closure over a new snapshot.
GetPriorityFunction(snapshot) ==
    /\ p_args' = IDkgPriorityFnArgsNew(snapshot)
    /\ p_state' = snapshot
    /\ p_result' = "none"
    /\ UNCHANGED <<p_attr, p_subnet_id, dropped_adverts, pool_vars, block_vars,
                   state_vars, driver_vars, env_vars, api_vars>>

ArgsInit == Init /\ scenario = {"SigShare"}

ArgsNext ==
    \/ \E snapshot \in Snapshots : GetPriorityFunction(snapshot)
    \/ Intent

SpecArgs == ArgsInit /\ [][ArgsNext]_vars

IsNewSnapshot == <<p_args, p_state>>' # <<p_args, p_state>>

\* C13: the requested_signatures of a snapshot built from a certified state
\* are exactly the request ids of the contexts already matched to a
\* pre-signature, its certified_height is the height of that state, and a
\* context that is not matched contributes nothing.
C13_RequestedSignatures ==
    [][IsNewSnapshot /\ p_state' = "Some" =>
          /\ p_args'.requested_signatures = {RequestIdOf(r) : r \in requests}
          /\ p_args'.certified_height = certified_height]_vars

\* A snapshot holds the one matched request of a certified state that also
\* holds a context without a pre-signature.
C13_Witness ==
    /\ p_state = "Some"
    /\ p_args.certified_height = certified_height
    /\ p_args.requested_signatures = {RequestIdOf(r) : r \in requests}
    /\ requests # {}
    /\ \E context \in signature_request_contexts : ~context.matched

\* The change sets the scheduled sub-engine can return in this state, one for
\* each outcome of the transcript loads it makes.
ScheduledChangeSets ==
    {ChangeSetOf(calls[schedule + 1], decrypt) :
        decrypt \in SUBSET {t \in LoadsOf(calls[schedule + 1]) :
                               loader[t] = "Absent"}}

\* C14: a tick can always be taken, and it returns a change set of the
\* scheduled sub-engine as it is, whether the retention step of the tick was
\* not due, succeeded, was aborted or met a transient or a fatal crypto error.
C14_TickReturnsChangeSet ==
    /\ []ENABLED OnStateChange
    /\ [][IsTick => ret' \in ScheduledChangeSets]_vars

\* The only retain_active_transcripts call so far is the one of this tick, it
\* failed with a fatal error, and the tick returned a non-empty change set.
C14_Witness ==
    /\ ret # {}
    /\ retain_arg # {}
    /\ metrics.critical_error_ecdsa_retain_active_transcripts = 1
    /\ metrics.retain_active_transcripts = 0
    /\ metrics.retain_active_transcripts_transient = 0

Msgs(cs, actions) == {op.msg : op \in {o \in cs : o.action \in actions}}

DecryptedNow == {t \in TranscriptIds : loader[t] = "Absent" /\ loader'[t] = "Loaded"}

LoadFailedNow(t) == loader'[t] \notin {"Loaded", "Recovered"}

RetentionInvoked == metrics' # metrics

\* C17: a tick invokes the retention exactly when 60 seconds or more have
\* passed since the timer was set; every invocation, successful, aborted or
\* failed, sets the timer to now, and a tick without invocation leaves it; no
\* other step invokes the retention.
C17_RetentionTiming ==
    [][IF IsTick
       THEN /\ RetentionInvoked <=> elapsed >= 60
            /\ RetentionInvoked => elapsed' = 0
            /\ ~RetentionInvoked => elapsed' = elapsed /\ retain_arg' = {}
       ELSE ~RetentionInvoked /\ retain_arg' = {}]_vars

\* The only retention attempt so far was aborted on an unresolved reference
\* and has reset the timer; a tick 59 seconds after construction did not
\* attempt it.
C17_Witness ==
    /\ metrics.resolve_active_transcript_refs_errors > 0
    /\ metrics.retain_active_transcripts = 0
    /\ metrics.retain_active_transcripts_transient = 0
    /\ metrics.critical_error_ecdsa_retain_active_transcripts = 0
    /\ elapsed = 0
    /\ ran # <<>>

\* ---------------------------------------------------------------------------
\* PocketIC server: the operations of ApiState
\* ---------------------------------------------------------------------------

idkg_vars == <<prio_vars, pool_vars, block_vars, state_vars, driver_vars,
               env_vars>>

\* The instance is there and holds its PocketIc.
IsAvailable(instance_id) ==
    Exists(instance_id) /\ InstanceOf(instance_id).tag = "Available"

UpdateLockedOwnOp(op_id, instance_id) ==
    IF ~Exists(instance_id) THEN UpdateError("Instance not found")
    ELSE LET instance_state == InstanceOf(instance_id) IN
         CASE instance_state.tag = "Deleted" ->
                  UpdateError("Instance was deleted")
           [] instance_state.tag = "Busy" ->
                  UpdateReplyBusy(instance_state.state_label, op_id)
           [] instance_state.tag = "Available" ->
                  UpdateReplyStarted(instance_state.pocket_ic, op_id)

UpdateLockedBusyOutcome(op_id, instance_id) ==
    IF ~Exists(instance_id) THEN UpdateError("Instance not found")
    ELSE LET instance_state == InstanceOf(instance_id) IN
         CASE instance_state.tag = "Deleted" ->
                  UpdateError("Instance was deleted")
           [] instance_state.tag = "Busy" ->
                  UpdateReplyBusy(instance_state.state_label,
                                  instance_state.op_id)
           [] instance_state.tag = "Available" ->
                  UpdateReplyBusy(instance_state.pocket_ic, op_id)

\* update_instances_with_timeout, the section under the instance lock: the
\* early return for a missing, deleted or busy instance, and for an available
\* one the busy_outcome the call falls back to when its wait times out.
UpdateLocked(op_id, instance_id) ==
    IF ~Exists(instance_id) THEN UpdateError("Instance not found")
    ELSE LET instance_state == InstanceOf(instance_id) IN
         CASE instance_state.tag = "Deleted" ->
                  UpdateError("Instance was deleted")
           [] instance_state.tag = "Busy" ->
                  UpdateReplyBusy(instance_state.state_label,
                                  instance_state.op_id)
           [] instance_state.tag = "Available" ->
                  UpdateReplyStarted(instance_state.pocket_ic, op_id)

\* The background task of an operation bound to an instance.
BgTaskOf(instance_id, old_state_label, op_id) ==
    [instance_id |-> instance_id, old_state_label |-> old_state_label,
     op_id |-> op_id]

BindLeavesAvailable(op_id, instance_id) ==
    LET state_label == InstanceOf(instance_id).pocket_ic IN
    /\ state_label < MaxLabel
    /\ instances' = instances
    /\ bg_tasks' = bg_tasks \cup {BgTaskOf(instance_id, state_label, op_id)}

\* update_instances_with_timeout on an available instance: the PocketIc is
\* moved out, Busy is left in its place, and the background task is spawned.
Bind(op_id, instance_id) ==
    LET state_label == InstanceOf(instance_id).pocket_ic IN
    /\ state_label < MaxLabel
    /\ instances' = [instances EXCEPT
                         ![instance_id + 1] = Busy(state_label, op_id)]
    /\ bg_tasks' = bg_tasks \cup {BgTaskOf(instance_id, state_label, op_id)}

\* add_instance holds the write lock of instances while it waits for the write
\* lock of progress_threads.
InstancesWriteLocked == \E c \in api_calls : c.fn = "add_instance"

\* A stop_progress that awaits the handle of its thread holds a read lock of
\* progress_threads.
ProgressThreadsRead == \E c \in api_calls : c.pc = "join"

\* The background task after its computation: it holds the PocketIc with the
\* new state label and a read lock of instances.
BgTaskInserted(t, new_state_label) ==
    [instance_id |-> t.instance_id, old_state_label |-> t.old_state_label,
     op_id |-> t.op_id, pocket_ic |-> new_state_label]

HasInserted(t) == "pocket_ic" \in DOMAIN t

InstancesRead == \E t \in bg_tasks : HasInserted(t)

\* op.compute and the state label after it: an operation leaves the state as
\* it is or changes it, and the same operation on the same state, which the
\* graph caches under its label, ends in the same state.
Compute(old_state_label, op_id) ==
    IF GraphGet(old_state_label, op_id) # {}
    THEN {e.new_state_label : e \in GraphGet(old_state_label, op_id)}
    ELSE {old_state_label, old_state_label + 1}

BgTaskKeyedByNewLabel(t, new_state_label) ==
    /\ t \in bg_tasks
    /\ ~HasInserted(t)
    /\ ~InstancesWriteLocked
    /\ new_state_label \in Compute(t.old_state_label, t.op_id)
    /\ graph' = GraphInsert(new_state_label, t.op_id, new_state_label, "Out")
    /\ bg_tasks' = (bg_tasks \ {t}) \cup {BgTaskInserted(t, new_state_label)}
    /\ reply' = NoReply
    /\ UNCHANGED <<instances, progress_threads, threads, api_calls, idkg_vars>>

\* The background task up to the release of the graph lock: the operation is
\* computed, the read lock of instances is taken, and the result is added to
\* the graph under the old state label.
BgTask(t, new_state_label) ==
    /\ t \in bg_tasks
    /\ ~HasInserted(t)
    /\ ~InstancesWriteLocked
    /\ new_state_label \in Compute(t.old_state_label, t.op_id)
    /\ graph' = GraphInsert(t.old_state_label, t.op_id, new_state_label, "Out")
    /\ bg_tasks' = (bg_tasks \ {t}) \cup {BgTaskInserted(t, new_state_label)}
    /\ reply' = NoReply
    /\ UNCHANGED <<instances, progress_threads, threads, api_calls, idkg_vars>>

BgTaskPutBackAlways(t) ==
    /\ t \in bg_tasks
    /\ HasInserted(t)
    /\ instances' = [instances EXCEPT ![t.instance_id + 1] =
                                          Available(t.pocket_ic)]
    /\ bg_tasks' = bg_tasks \ {t}
    /\ api_calls' = {IF c.fn = "update" /\ c.pc = "wait"
                        /\ c.instance_id = t.instance_id
                     THEN [c EXCEPT !.pc = "ready"] ELSE c : c \in api_calls}
    /\ threads' = [i \in DOMAIN threads |->
                       IF i = t.instance_id + 1 /\ threads[i].pc = "wait"
                       THEN [threads[i] EXCEPT !.pc = "ready"]
                       ELSE threads[i]]
    /\ reply' = NoReply
    /\ UNCHANGED <<graph, progress_threads, idkg_vars>>

\* The background task from the lock of the instance to its end: the PocketIc
\* is put back unless the instance was deleted meanwhile, then it is dropped.
\* A caller still waiting for the task gets the result.
BgTaskPutBack(t) ==
    /\ t \in bg_tasks
    /\ HasInserted(t)
    /\ instances' = IF InstanceOf(t.instance_id) = Deleted
                    THEN instances
                    ELSE [instances EXCEPT ![t.instance_id + 1] =
                                               Available(t.pocket_ic)]
    /\ bg_tasks' = bg_tasks \ {t}
    /\ api_calls' = {IF c.fn = "update" /\ c.pc = "wait"
                        /\ c.instance_id = t.instance_id
                     THEN [c EXCEPT !.pc = "ready"] ELSE c : c \in api_calls}
    /\ threads' = [i \in DOMAIN threads |->
                       IF i = t.instance_id + 1 /\ threads[i].pc = "wait"
                       THEN [threads[i] EXCEPT !.pc = "ready"]
                       ELSE threads[i]]
    /\ reply' = NoReply
    /\ UNCHANGED <<graph, progress_threads, idkg_vars>>

\* The synchronous return of update_instances_with_timeout: the value of the
\* computation is pruned from the graph, its new state label is kept.
Pruned(busy_outcome) ==
    LET e == CHOOSE e \in GraphGet(busy_outcome.state_label,
                                   busy_outcome.op_id) : TRUE IN
    GraphInsert(e.state_label, e.op_id, e.new_state_label, "Pruned")

\* ApiState::add_instance when it gets both write locks without waiting.
AddInstance ==
    /\ Len(instances) < MaxInstances
    /\ ~InstancesWriteLocked /\ ~InstancesRead /\ ~ProgressThreadsRead
    /\ instances' = Append(instances, Available(0))
    /\ progress_threads' = Append(progress_threads, "None")
    /\ threads' = Append(threads, NoThread)
    /\ reply' = NoReply
    /\ UNCHANGED <<graph, bg_tasks, api_calls, idkg_vars>>

\* ApiState::update up to its first return or to the wait for the background
\* task.
Update(op_id, instance_id) ==
    /\ Cardinality(api_calls) < MaxCalls
    /\ ~InstancesWriteLocked
    /\ IF IsAvailable(instance_id)
       THEN /\ Bind(op_id, instance_id)
            /\ api_calls' = api_calls \cup
                   {ApiCall("update", instance_id, "wait",
                            UpdateLocked(op_id, instance_id))}
            /\ reply' = NoReply
       ELSE /\ reply' = UpdateLocked(op_id, instance_id)
            /\ UNCHANGED <<instances, bg_tasks, api_calls>>
    /\ UNCHANGED <<graph, progress_threads, threads, idkg_vars>>

\* ApiState::update, the wait has timed out: the busy_outcome is returned and
\* the background task goes on.
UpdateTimeout(c) ==
    /\ c \in api_calls /\ c.fn = "update" /\ c.pc = "wait"
    /\ reply' = c.busy_outcome
    /\ api_calls' = api_calls \ {c}
    /\ UNCHANGED <<instances, graph, progress_threads, threads, bg_tasks,
                   idkg_vars>>

\* ApiState::update, the background task finished within the wait.
UpdateOutput(c) ==
    /\ c \in api_calls /\ c.fn = "update" /\ c.pc = "ready"
    /\ graph' = Pruned(c.busy_outcome)
    /\ reply' = UpdateReplyOutput
    /\ api_calls' = api_calls \ {c}
    /\ UNCHANGED <<instances, progress_threads, threads, bg_tasks, idkg_vars>>

\* The mutex of progress_threads[instance_id] is held by a stop_progress that
\* awaits the handle of the thread.
Locked(instance_id) ==
    \E c \in api_calls : c.instance_id = instance_id /\ c.pc = "join"

\* ApiState::auto_progress: a thread is spawned unless the instance has one.
AutoProgress(instance_id) ==
    /\ instance_id + 1 \in DOMAIN progress_threads
    /\ ~Locked(instance_id)
    /\ IF progress_threads[instance_id + 1] = "None"
       THEN /\ progress_threads' =
                   [progress_threads EXCEPT ![instance_id + 1] = "Some"]
            /\ threads' = [threads EXCEPT ![instance_id + 1] =
                   ThreadAt("update", "AdvanceTimeAndTick", NoReply, FALSE)]
       ELSE UNCHANGED <<progress_threads, threads>>
    /\ reply' = NoReply
    /\ UNCHANGED <<instances, graph, bg_tasks, api_calls, idkg_vars>>

\* ApiState::stop_progress up to the await of the handle, on behalf of fn:
\* the thread is taken out and sent the stop message. Without a thread the
\* call goes on at once; sending to a thread that has panicked panics.
StopProgressSend(fn, instance_id, then) ==
    /\ instance_id + 1 \in DOMAIN progress_threads
    /\ ~Locked(instance_id)
    /\ Cardinality(api_calls) < MaxCalls
    /\ IF progress_threads[instance_id + 1] = "Some"
       THEN /\ progress_threads' =
                   [progress_threads EXCEPT ![instance_id + 1] = "None"]
            /\ IF threads[instance_id + 1].pc = "panicked"
               THEN UNCHANGED <<threads, api_calls>>
               ELSE /\ threads' = [threads EXCEPT
                                       ![instance_id + 1].rx = TRUE]
                    /\ api_calls' = api_calls \cup
                           {ApiCall(fn, instance_id, "join", NoReply)}
       ELSE /\ api_calls' = api_calls \cup then
            /\ UNCHANGED <<progress_threads, threads>>
    /\ reply' = NoReply
    /\ UNCHANGED <<instances, graph, bg_tasks, idkg_vars>>

\* ApiState::stop_progress, the handle is awaited: the thread has returned,
\* or it has panicked and so does the call.
StopProgressJoin(c, then) ==
    /\ c \in api_calls /\ c.pc = "join"
    /\ \/ /\ threads[c.instance_id + 1].pc = "returned"
          /\ threads' = [threads EXCEPT ![c.instance_id + 1] = NoThread]
          /\ api_calls' = (api_calls \ {c}) \cup then
       \/ /\ threads[c.instance_id + 1].pc = "panicked"
          /\ api_calls' = api_calls \ {c}
          /\ UNCHANGED threads
    /\ reply' = NoReply
    /\ UNCHANGED <<instances, graph, progress_threads, bg_tasks, idkg_vars>>

StopProgress(instance_id) == StopProgressSend("stop_progress", instance_id, {})

StopProgressReturn(c) ==
    c.fn = "stop_progress" /\ StopProgressJoin(c, {})

\* ApiState::delete_instance: stop_progress, then the instance state is
\* replaced by Deleted, whatever it was.
DeleteInstance(instance_id) ==
    StopProgressSend("delete_instance", instance_id,
                     {ApiCall("delete_instance", instance_id, "lock", NoReply)})

DeleteInstanceStopped(c) ==
    /\ c.fn = "delete_instance"
    /\ StopProgressJoin(c, {ApiCall("delete_instance", c.instance_id, "lock",
                                    NoReply)})

DeleteInstanceReplace(c) ==
    /\ c \in api_calls /\ c.fn = "delete_instance" /\ c.pc = "lock"
    /\ ~InstancesWriteLocked
    /\ instances' = [instances EXCEPT ![c.instance_id + 1] = Deleted]
    /\ api_calls' = api_calls \ {c}
    /\ reply' = NoReply
    /\ UNCHANGED <<graph, progress_threads, threads, bg_tasks, idkg_vars>>

\* The auto-progress loop after an operation was executed to completion:
\* AdvanceTimeAndTick is followed by GetCanisterHttp, and that, no canister
\* http request being pending, by the sleep.
Completed(th) ==
    IF th.op = "AdvanceTimeAndTick"
    THEN ThreadAt("update", "GetCanisterHttp", NoReply, th.rx)
    ELSE ThreadAt("sleep", "AdvanceTimeAndTick", NoReply, th.rx)

\* execute_operation: the update of the loop is issued and unwrapped. An
\* error panics; Busy retries unless the stop message has arrived.
ThreadUpdate(instance_id) ==
    LET th == threads[instance_id + 1]
        r == UpdateLocked(th.op, instance_id) IN
    /\ instance_id + 1 \in DOMAIN threads
    /\ th.pc = "update"
    /\ ~InstancesWriteLocked
    /\ IF IsAvailable(instance_id)
       THEN /\ Bind(th.op, instance_id)
            /\ threads' = [threads EXCEPT ![instance_id + 1] =
                               ThreadAt("wait", th.op, r, th.rx)]
       ELSE /\ threads' = [threads EXCEPT ![instance_id + 1] =
                   IF r.tag = "Err" THEN [th EXCEPT !.pc = "panicked"]
                   ELSE IF th.rx THEN [th EXCEPT !.pc = "returned"]
                   ELSE th]
            /\ UNCHANGED <<instances, bg_tasks>>
    /\ reply' = NoReply
    /\ UNCHANGED <<graph, progress_threads, api_calls, idkg_vars>>

\* execute_operation: the update has timed out and returned Started.
ThreadTimeout(instance_id) ==
    LET th == threads[instance_id + 1] IN
    /\ instance_id + 1 \in DOMAIN threads
    /\ th.pc = "wait"
    /\ threads' = [threads EXCEPT ![instance_id + 1].pc = "poll"]
    /\ reply' = NoReply
    /\ UNCHANGED <<instances, graph, progress_threads, bg_tasks, api_calls,
                   idkg_vars>>

\* execute_operation: the update has returned Output.
ThreadOutput(instance_id) ==
    LET th == threads[instance_id + 1] IN
    /\ instance_id + 1 \in DOMAIN threads
    /\ th.pc = "ready"
    /\ graph' = Pruned(th.busy_outcome)
    /\ threads' = [threads EXCEPT ![instance_id + 1] = Completed(th)]
    /\ reply' = NoReply
    /\ UNCHANGED <<instances, progress_threads, bg_tasks, api_calls,
                   idkg_vars>>

\* execute_operation after Started: the graph is polled for the result; when
\* it is not there yet, a stop message ends the thread.
ThreadPoll(instance_id) ==
    LET th == threads[instance_id + 1] IN
    /\ instance_id + 1 \in DOMAIN threads
    /\ th.pc = "poll"
    /\ threads' = [threads EXCEPT ![instance_id + 1] =
           IF read_result(th.busy_outcome.state_label, th.busy_outcome.op_id)
           THEN Completed(th)
           ELSE IF th.rx THEN [th EXCEPT !.pc = "returned"]
           ELSE th]
    /\ reply' = NoReply
    /\ UNCHANGED <<instances, graph, progress_threads, bg_tasks, api_calls,
                   idkg_vars>>

\* The auto-progress loop after its sleep: a stop message ends the thread,
\* otherwise the next round begins.
ThreadSleep(instance_id) ==
    LET th == threads[instance_id + 1] IN
    /\ instance_id + 1 \in DOMAIN threads
    /\ th.pc = "sleep"
    /\ threads' = [threads EXCEPT ![instance_id + 1] =
           IF th.rx THEN [th EXCEPT !.pc = "returned"]
           ELSE ThreadAt("update", "AdvanceTimeAndTick", NoReply, FALSE)]
    /\ reply' = NoReply
    /\ UNCHANGED <<instances, graph, progress_threads, bg_tasks, api_calls,
                   idkg_vars>>

ApiInit ==
    /\ PriorityIdle
    /\ DriverInit
    /\ scenario = {"SigShare"}
    /\ gossiped = 0
    /\ ApiStateBuild
    /\ ParamsDealers

ApiNext ==
    \/ AddInstance
    \/ \E op_id \in ClientOps, instance_id \in InstanceIds :
           Update(op_id, instance_id)
    \/ \E c \in api_calls : UpdateTimeout(c)
    \/ \E c \in api_calls : UpdateOutput(c)
    \/ \E t \in bg_tasks, new_state_label \in StateLabels :
           BgTask(t, new_state_label)
    \/ \E t \in bg_tasks : BgTaskPutBack(t)
    \/ \E instance_id \in InstanceIds : AutoProgress(instance_id)
    \/ \E instance_id \in InstanceIds : StopProgress(instance_id)
    \/ \E c \in api_calls : StopProgressReturn(c)
    \/ \E instance_id \in InstanceIds : DeleteInstance(instance_id)
    \/ \E c \in api_calls : DeleteInstanceStopped(c)
    \/ \E c \in api_calls : DeleteInstanceReplace(c)
    \/ \E instance_id \in InstanceIds : ThreadUpdate(instance_id)
    \/ \E instance_id \in InstanceIds : ThreadTimeout(instance_id)
    \/ \E instance_id \in InstanceIds : ThreadOutput(instance_id)
    \/ \E instance_id \in InstanceIds : ThreadPoll(instance_id)
    \/ \E instance_id \in InstanceIds : ThreadSleep(instance_id)

SpecApi == ApiInit /\ [][ApiNext]_vars

\* C18: an update for an instance that is Busy returns UpdateReply::Busy with
\* the state label and the operation id of the operation that is running, not
\* those of the new operation; it starts no background task and leaves the
\* instance states and the computation graph as they are.
C18_BusyReply ==
    [][\A op_id \in ClientOps, instance_id \in InstanceIds :
           (/\ Update(op_id, instance_id)
            /\ Exists(instance_id)
            /\ InstanceOf(instance_id).tag = "Busy")
           => /\ reply' = UpdateReplyBusy(InstanceOf(instance_id).state_label,
                                          InstanceOf(instance_id).op_id)
              /\ instances' = instances
              /\ graph' = graph
              /\ bg_tasks' = bg_tasks
              /\ api_calls' = api_calls]_vars

\* A client update has just been answered Busy with an operation of the
\* auto-progress thread, which the instance is still computing.
C18_Witness ==
    /\ reply.tag = "Busy"
    /\ reply.op_id \in ProgressOps
    /\ InstanceOf(0) = Busy(reply.state_label, reply.op_id)
    /\ BgTaskOf(0, reply.state_label, reply.op_id) \in bg_tasks

C20_UnwrapNeverPanics ==
    \A i \in DOMAIN threads : threads[i].pc # "panicked"

\* The sub-engine the tick of this step runs.
TickOf(engine) == IsTick /\ calls[schedule + 1] = engine

DealingKinds == {"Dealing", "DealingSupport"}

\* The config of m is not among the active configs of the finalized tip and
\* its source height is not above the tip.
InactiveAtTip(m) ==
    m.id \notin requested /\ SourceHeight(m.id) <= finalized_height

ServedAtCertified(m) ==
    m.id \notin requests /\ SigRequests[m.id].height <= certified_height

\* C22: a Signer tick removes a validated signature share exactly when its
\* request is not in the certified state and the height of the request id is
\* at most the certified height, and then removes the unvalidated ones as
\* well; a share whose request is in the certified state is touched by
\* validation only, and one whose request is absent but above the certified
\* height stays where it is.
C22_SignerPurge ==
    [][TickOf("signer") =>
          /\ \A m \in validated :
                m.kind = "SigShare" =>
                    (m \notin validated' <=> ServedAtCertified(m))
          /\ \A m \in unvalidated :
                m.kind = "SigShare" =>
                    /\ ServedAtCertified(m)
                           => m \notin unvalidated' \cup validated'
                    /\ RemoveUnvalidated(m) \in PurgeShares
                           <=> ServedAtCertified(m)
                    /\ ~ServedAtCertified(m) /\ m.id \notin requests
                           => m \in unvalidated']_vars

\* A Signer tick has just removed the validated share of this replica for r1,
\* which has left the certified state, and has kept an unvalidated share for
\* r2, which the certified state has not reached yet.
C22_Witness ==
    /\ RemoveValidated(SigShare("r1", Self, "a")) \in ret
    /\ SigShare("r1", Self, "a") \notin validated
    /\ "r1" \in served
    /\ \E m \in unvalidated : m.kind = "SigShare" /\ m.id = "r2"
    /\ certified_height < SigRequests["r2"].height

\* The Pre-Signer under blocks whose configs may leave this replica out of
\* their dealers; at most one more artifact arrives from the peers.
DealersInit ==
    /\ PriorityIdle
    /\ DriverInit
    /\ ApiStateBuild
    /\ dealers \in [ConfigIds -> {Nodes, Nodes \ {Self}}]
    /\ scenario = {"Dealing", "DealingSupport"}
    /\ gossiped = MaxGossip - 1

DealersNext ==
    \/ OnStateChange
    \/ \E m \in GossipMessages : Gossip(m)
    \/ BlockIntent

SpecDealers == DealersInit /\ [][DealersNext]_vars

\* The dealings of this replica a change set adds to the validated bag.
OwnDealings(cs) ==
    {op.msg : op \in {o \in cs : /\ o.action = "AddToValidated"
                                 /\ o.msg.kind = "Dealing"
                                 /\ o.msg.author = Self}}

HasOwnDealing(c) ==
    \E d \in validated : d.kind = "Dealing" /\ d.id = c /\ d.author = Self

\* C23: a Pre-Signer tick inserts a dealing of this replica for an active
\* config C as validated exactly when the replica is a dealer of C, the
\* validated bag holds no dealing of it for C and every dependency of C loads;
\* it inserts none for a config that is not active, and no other step inserts
\* one.  Hence the validated bag never holds two dealings of this replica for
\* one config.
C23_DealingCreation ==
    [][/\ TickOf("pre_signer") =>
             /\ \A c \in requested :
                   (\E d \in OwnDealings(ret') : d.id = c)
                       <=> /\ Self \in dealers[c]
                           /\ ~HasOwnDealing(c)
                           /\ \A t \in Params[c].deps : ~LoadFailedNow(t)
             /\ \A d \in OwnDealings(ret') :
                   d.id \in requested /\ d \in validated'
       /\ ~TickOf("pre_signer") =>
             \A c \in ConfigIds : HasOwnDealing(c)' => HasOwnDealing(c)
       /\ \A d, e \in validated' :
             (/\ d.kind = "Dealing" /\ e.kind = "Dealing"
              /\ d.author = Self /\ e.author = Self
              /\ d.id = e.id) => d = e]_vars

\* Two Pre-Signer ticks have run with c1 active: this replica, a dealer of c1
\* but not of c2, has dealt for c1 in the first, and the second, finding that
\* dealing validated, has added none.
C23_Witness ==
    /\ requested = {"c1"}
    /\ Self \in dealers["c1"] /\ Self \notin dealers["c2"]
    /\ HasOwnDealing("c1")
    /\ ran = <<"signer", "complaint_handler", "pre_signer">>
    /\ OwnDealings(ret) = {}

\* The unvalidated dealings of the dealer of m for the config of m.
Dups(m) == {n \in unvalidated : SameKey(n, m)}

\* The first of them in the pool's deterministic order.
FirstDup(m) ==
    CHOOSE f \in Dups(m) :
        \A n \in Dups(m) : BodyRank[f.body] <= BodyRank[n.body]

\* The dealings a change set moves to the validated bag.
Promoted(cs) ==
    {op.msg : op \in {o \in cs : /\ o.action = "MoveToValidated"
                                 /\ o.msg.kind = "Dealing"}}

\* C24: when a Pre-Signer tick finds several unvalidated dealings of one dealer
\* for one active config, only the first in the deterministic order is
\* verified: it is promoted exactly when it passes public verification and
\* the dealer has no validated dealing for the config; all the others are
\* removed from the unvalidated bag in that tick, valid or not.  No tick
\* promotes two dealings of one (config, dealer).
C24_DuplicateDealings ==
    [][TickOf("pre_signer") =>
          /\ \A m \in unvalidated :
                (/\ m.kind = "Dealing"
                 /\ m.id \in requested
                 /\ Cardinality(Dups(m)) > 1)
                => /\ Dups(m) \cap unvalidated' = {}
                   /\ Dups(m) \cap validated' \subseteq {FirstDup(m)}
                   /\ FirstDup(m) \in validated'
                          <=> /\ verify_public(FirstDup(m))
                              /\ \A v \in validated : ~SameKey(v, m)
                   /\ \A n \in Dups(m) \ {FirstDup(m)} :
                          RemoveUnvalidated(n) \in ret'
          /\ \A d, e \in Promoted(ret') : SameKey(d, e) => d = e]_vars

\* A Pre-Signer tick found two unvalidated dealings of n2 for the active c1:
\* the first failed public verification and was removed, and the second,
\* although well-formed, was removed unverified; none was promoted.
C24_Witness ==
    /\ RemoveUnvalidated(Dealing("c1", "n2", "x")) \in ret
    /\ RemoveUnvalidated(Dealing("c1", "n2", "a")) \in ret
    /\ \A v \in validated : ~(v.kind = "Dealing" /\ v.author = "n2")
    /\ "c1" \in requested
    /\ unvalidated = {}

\* The supports of this replica that enter the validated bag in this step.
NewOwnSupports ==
    {s \in validated' \ validated :
        s.kind = "DealingSupport" /\ s.author = Self}

\* C25: a support of this replica enters the validated bag only through the
\* change set of a Pre-Signer tick, and only for a dealing that was in the
\* validated bag before the tick, passes private verification, belongs to a
\* config whose receivers include this replica, and had no validated support
\* of this replica yet; never for a dealing that is only unvalidated or that
\* fails private verification.
C25_SupportIssuance ==
    [][\A s \in NewOwnSupports :
           /\ TickOf("pre_signer")
           /\ AddToValidated(s) \in ret'
           /\ Self \in Params[s.id].receivers
           /\ \E d \in validated :
                 /\ d.kind = "Dealing" /\ d.id = s.id /\ d.author = s.about
                 /\ verify_dealing_private(d)
           /\ \A v \in validated :
                 ~(/\ v.kind = "DealingSupport" /\ v.author = Self
                   /\ v.id = s.id /\ v.about = s.about)]_vars

\* A Pre-Signer tick has just supported the validated dealing of n2 for c1
\* and added nothing else; this replica is not a receiver of c2.
C25_Witness ==
    /\ ret = {AddToValidated(DealingSupport("c1", "n2", Self, "a"))}
    /\ Dealing("c1", "n2", "a") \in validated
    /\ DealingSupport("c1", "n2", Self, "a") \in validated
    /\ Self \notin Params["c2"].receivers

OwnSupportOf(d) == DealingSupport(d.id, d.author, Self, "a")

\* The validated dealings of active configs this replica has to verify
\* privately and that fail the verification.
FailingPrivately ==
    {d \in validated : /\ d.kind = "Dealing"
                       /\ d.id \in requested
                       /\ Self \in Params[d.id].receivers
                       /\ \A v \in validated : ~SameKey(v, OwnSupportOf(d))
                       /\ ~verify_dealing_private(d)}

HasOwnShare(r) ==
    \E v \in validated : v.kind = "SigShare" /\ v.id = r /\ v.author = Self

\* C27: a share of this replica for a request is queued only by a Signer tick
\* that finds no share of this replica for that request in the validated bag,
\* and enters the validated bag in no other way; so a Signer tick that finds
\* its share validated queues no second one, and the validated bag never
\* holds two shares of this replica for one request.
C27_OwnShareOnce ==
    [][/\ \A r \in OwnShares(ret') : TickOf("signer") /\ ~HasOwnShare(r)
       /\ \A r \in RequestIds :
             HasOwnShare(r)' /\ ~HasOwnShare(r) => r \in OwnShares(ret')
       /\ TickOf("signer") =>
             \A r \in requests : HasOwnShare(r) => r \notin OwnShares(ret')
       /\ \A v, w \in validated' :
             (/\ v.kind = "SigShare" /\ w.kind = "SigShare"
              /\ v.author = Self /\ w.author = Self
              /\ v.id = w.id) => v = w]_vars

\* Two Signer ticks have run with r1 in the certified state: the share of
\* this replica, created by the first, is validated, and the second has
\* queued none.
C27_Witness ==
    /\ "r1" \in requests
    /\ HasOwnShare("r1")
    /\ ran = <<"complaint_handler", "pre_signer", "signer">>
    /\ OwnShares(ret) = {}

\* The transitions the transcript loader may take for one transcript.
LoaderTransitions ==
    {<<"Absent", "Loaded">>, <<"Absent", "ComplaintEmitted">>,
     <<"ComplaintEmitted", "Recovered">>}

\* The transcripts the sub-engine of this step asks the loader for.
LoadedNow == IF IsTick THEN LoadsOf(calls[schedule + 1]) ELSE {}

ComplainedAbout(t) == AddToValidated(Complaint(t, Self, "a")) \in ret'

LoaderNeverRecovers == \A t \in TranscriptIds : loader[t] # "Recovered"

\* The artifacts of this replica whose creation loads the transcript t.
NeedingLoad(t) ==
    {Dealing(c, Self, "a") : c \in {d \in DealingsToSend : t \in Params[d].deps}}
        \cup {SigShare(r, Self, "a") :
                  r \in {q \in SharesToSend : t \in SigInputs(q)}}

OwnOpenings(cs) ==
    {op \in cs : /\ op.action = "AddToValidated"
                 /\ op.msg.kind = "Opening"
                 /\ op.msg.author = Self}

\* The validated openings of this replica for a transcript and a complainer.
OpenedFor(bag, t, complainer) ==
    {o \in bag : /\ o.kind = "Opening"
                 /\ o.author = Self
                 /\ o.id = t
                 /\ o.about = complainer}

ValidatedComplaints == {v \in validated : v.kind = "Complaint"}

\* C30: a Complaint Handler tick inserts as validated exactly one opening of
\* this replica for every validated complaint whose config is active and that
\* the replica has no validated opening for, none for a validated complaint
\* that is already opened or whose config is not active, and none without a
\* validated complaint; no other step emits an opening, and the validated bag
\* never holds two openings of this replica for one transcript and complainer.
C30_OpeningEmission ==
    [][/\ TickOf("complaint_handler") =>
             /\ \A c \in ValidatedComplaints :
                    Cardinality({op \in OwnOpenings(ret') :
                                    /\ op.msg.id = c.id
                                    /\ op.msg.about = c.author})
                        = IF /\ c.id \in requested
                             /\ OpenedFor(validated, c.id, c.author) = {}
                          THEN 1 ELSE 0
             /\ \A op \in OwnOpenings(ret') :
                    \E c \in ValidatedComplaints :
                        c.id = op.msg.id /\ c.author = op.msg.about
       /\ ~TickOf("complaint_handler") => OwnOpenings(ret') = {}
       /\ \A t \in TranscriptIds, n \in Nodes :
              Cardinality(OpenedFor(validated', t, n)) <= 1]_vars

\* The complaints of n2 and of n3 about c1 are validated while c1 is active,
\* and the Complaint Handler tick that has just run answered each of them with
\* one opening.
C30_Witness ==
    /\ "c1" \in requested
    /\ ran # <<>> /\ ran[Len(ran)] = "complaint_handler"
    /\ {op.msg : op \in OwnOpenings(ret)}
           = {Opening("c1", n, Self, "a") : n \in {"n2", "n3"}}
    /\ \A n \in {"n2", "n3"} : HasValidated(Complaint("c1", n, "a"))

\* The counter `label` of IDkgClientMetrics has grown by n in this step.
Counted(label, n) == metrics'[label] = metrics[label] + n

\* The three counters of the outcome of retain_active_transcripts, each with
\* the results of the crypto oracle that increment it.
RetainCounters ==
    [retain_active_transcripts |-> {"Ok"},
     retain_active_transcripts_transient |-> {"TransientInternalError"},
     critical_error_ecdsa_retain_active_transcripts |->
         CryptoResults \ {"Ok", "TransientInternalError"}]

\* C31: a tick that runs purge_inactive_transcripts with the references
\* `unresolved` failing to resolve and the crypto oracle answering
\* `crypto_result` counts one resolve error per failing reference and one
\* resolve success per other reference; when none fails it adds one to exactly
\* the counter of the crypto result (success on Ok, transient on a transient
\* internal error, critical on any other error) and when one fails it leaves
\* these three counters alone and does not call the crypto oracle; no other
\* step changes a counter.
C31_RetentionAccounting ==
    [][/\ \A decrypt \in SUBSET TranscriptIds,
             unresolved \in SUBSET active_transcripts,
             crypto_result \in CryptoResults :
             PurgeDue /\ Tick(decrypt, unresolved, crypto_result) =>
                 /\ Counted("resolve_active_transcript_refs_errors",
                            Cardinality(unresolved))
                 /\ Counted("resolve_active_transcript_refs",
                            Cardinality(active_transcripts \ unresolved))
                 /\ \A label \in DOMAIN RetainCounters :
                        Counted(label,
                                IF /\ unresolved = {}
                                   /\ crypto_result \in RetainCounters[label]
                                THEN 1 ELSE 0)
                 /\ unresolved # {} => retain_arg' = {}
       /\ ~(IsTick /\ PurgeDue) => metrics' = metrics]_vars

\* The only retention attempt so far found one of the two active transcript
\* references unresolvable and was aborted: one resolve error, one resolve
\* success, the three outcome counters untouched.
C31_Witness ==
    /\ metrics.resolve_active_transcript_refs_errors = 1
    /\ metrics.resolve_active_transcript_refs = 1
    /\ \A label \in DOMAIN RetainCounters : metrics[label] = 0
    /\ retain_arg = {}
    /\ elapsed = 0
    /\ ran # <<>>

(***************************************************************************)
(* The priority function over the life of the replica: get_priority_function *)
(* takes a new snapshot of the block reader and the certified state, and   *)
(* the closure it returns ranks the adverts of signature shares.           *)
(***************************************************************************)

\* The adverts of signature shares: for the requests of the certified state,
\* at their own height or any other.
ShareAttributes ==
    [kind : SigShareKinds,
     id : {RequestId(SigRequests[r].pre_signature, r, h) :
              r \in RequestIds, h \in AttrHeights}]

GossipInit ==
    /\ p_attr \in ShareAttributes
    /\ p_subnet_id = 1
    /\ p_args = [finalized_height |-> 0, certified_height |-> 0,
                 requested_transcripts |-> {}, requested_signatures |-> {},
                 active_transcripts |-> {}]
    /\ p_result = "none"
    /\ p_state = "none"
    /\ dropped_adverts = [l \in AttrLabels |-> 0]
    /\ DriverInit
    /\ scenario = {"SigShare"}
    /\ gossiped = 0
    /\ ApiStateBuild
    /\ ParamsDealers

\* The closure is called only once get_priority_function has returned it.
RankAdvert == p_state # "none" /\ GetPriority

GossipNext ==
    \/ \E snapshot \in Snapshots : GetPriorityFunction(snapshot)
    \/ RankAdvert
    \/ AdvanceFinalized
    \/ AdvanceCertified
    \/ \E r \in RequestIds : NewRequest(r)

SpecGossip == GossipInit /\ [][GossipNext]_vars

\* C33: get_priority_function can always be called when no certified state
\* snapshot is available; the snapshot it builds then has certified_height 0
\* and no requested signature, and the closure over it ranks a signature share
\* of request height 0 Drop, of height 1 to 9 FetchNow and of height 10 or more
\* Stash.
C33_NoCertifiedState ==
    /\ ENABLED GetPriorityFunction("None")
    /\ p_state = "None" =>
          /\ p_args.certified_height = 0
          /\ p_args.requested_signatures = {}
          /\ p_result # "none" /\ p_attr.kind \in SigShareKinds =>
                p_result = CASE p_attr.id.height = 0 -> "Drop"
                             [] p_attr.id.height \in 1 .. 9 -> "FetchNow"
                             [] OTHER -> "Stash"

\* The certified state is at height 1 and holds a matched request, but the
\* snapshot was built while no certified state was available: a share of
\* height 1 that is not requested is fetched.
C33_Witness ==
    /\ p_state = "None"
    /\ certified_height >= 1
    /\ requests # {}
    /\ p_attr.id.height = 1
    /\ p_result = "FetchNow"

\* The height of the id an attribute carries, the height of the snapshot it
\* is compared with, and the ids of the snapshot that are wanted.
AttrHeight(attr) ==
    IF attr.kind \in SigShareKinds THEN attr.id.height ELSE attr.id.source_height

ReferenceHeight(attr, args) ==
    IF attr.kind \in SigShareKinds
    THEN args.certified_height ELSE args.finalized_height

AcceptSet(attr, args) ==
    CASE attr.kind \in {"Dealing", "DealingSupport"} -> args.requested_transcripts
      [] attr.kind \in SigShareKinds -> args.requested_signatures
      [] attr.kind \in {"Complaint", "Opening"} ->
            args.active_transcripts \cup args.requested_transcripts

\* C34: the priority function returns Drop only for an attribute whose height
\* is at most the reference height of the snapshot (the finalized height for
\* dealings, support, complaints and openings, the certified height for
\* shares) and whose id is not in its accept set; an attribute whose id is in
\* its accept set is never dropped.
C34_NothingWantedIsDropped ==
    p_result = "Drop" =>
        /\ AttrHeight(p_attr) <= ReferenceHeight(p_attr, p_args)
        /\ p_attr.id \notin AcceptSet(p_attr, p_args)

\* An opening is dropped by a snapshot that has a requested and an active
\* transcript, neither of them the transcript of the opening.
C34_Witness ==
    /\ p_attr.kind = "Opening"
    /\ p_result = "Drop"
    /\ p_args.requested_transcripts # {}
    /\ p_args.active_transcripts # {}
    /\ p_args.requested_transcripts # p_args.active_transcripts

IsXnet(attr, subnet_id) ==
    attr.kind \in TranscriptKinds /\ attr.id.source_subnet # subnet_id

\* C36: a complaint or an opening whose transcript comes from another subnet
\* is ranked by height and accept set like any other: Drop at or below the
\* finalized height when its id is neither active nor requested, Stash at the
\* finalized height plus 10 or above, FetchNow otherwise; a dealing or a
\* support with the same id is fetched whatever its height.
C36_XnetComplaints ==
    /\ p_result # "none"
    /\ p_attr.kind \in {"Complaint", "Opening"}
    /\ IsXnet(p_attr, p_subnet_id)
    => LET h == p_attr.id.source_height
           f == p_args.finalized_height
           wanted == p_attr.id \in p_args.active_transcripts
                                       \cup p_args.requested_transcripts
       IN  /\ p_result = "Drop" <=> h <= f /\ ~wanted
           /\ p_result = "Stash" <=> h >= f + 10
           /\ \A kind \in {"Dealing", "DealingSupport"} :
                  compute_priority([kind |-> kind, id |-> p_attr.id],
                                   p_subnet_id, p_args) = "FetchNow"

\* A complaint about a transcript of another subnet, at or below the
\* finalized height and neither active nor requested, is dropped.
C36_Witness ==
    /\ p_attr.kind = "Complaint"
    /\ IsXnet(p_attr, p_subnet_id)
    /\ p_attr.id.source_height <= p_args.finalized_height
    /\ p_result = "Drop"

(***************************************************************************)
(* One advert ranked again and again while the chain grows: every call of  *)
(* get_priority_function takes a snapshot whose heights are at least those *)
(* of the one before, and the advert's id is never requested or active.    *)
(***************************************************************************)

\* Largest finalized height of the growing chain: every advert ends below it.
MaxSnapshotHeight == MaxTip + LOOK_AHEAD

\* Adverts of the own subnet: dealings, support and shares of every height.
OwnSubnetAttributes ==
    [kind : {"Dealing", "DealingSupport"},
     id : {IDkgTranscriptId(1, 1, h) : h \in AttrHeights}]
        \cup [kind : SigShareKinds, id : AttrRequestIds]

HeightsInit ==
    /\ p_attr \in OwnSubnetAttributes
    /\ p_subnet_id = 1
    /\ p_args = [finalized_height |-> 0, certified_height |-> 0,
                 requested_transcripts |-> {}, requested_signatures |-> {},
                 active_transcripts |-> {}]
    /\ p_result = "none"
    /\ p_state = "Some"
    /\ dropped_adverts = [l \in AttrLabels |-> 0]
    /\ DriverInit
    /\ scenario = {"SigShare"}
    /\ gossiped = 0
    /\ ApiStateBuild
    /\ ParamsDealers

\* get_priority_function on a chain that has grown: the new snapshot has the
\* finalized height f and the certified height c; p_result keeps the priority
\* the closure before returned.
NextSnapshot(f, c) ==
    /\ f >= p_args.finalized_height
    /\ c >= p_args.certified_height
    /\ <<f, c>> # <<p_args.finalized_height, p_args.certified_height>>
    /\ p_args' = [p_args EXCEPT !.finalized_height = f, !.certified_height = c]
    /\ UNCHANGED <<p_attr, p_subnet_id, p_result, p_state, dropped_adverts,
                   pool_vars, block_vars, state_vars, driver_vars, env_vars,
                   api_vars>>

HeightsNext ==
    \/ \E f \in 0 .. MaxSnapshotHeight, c \in 0 .. MaxSnapshotHeight :
           c <= f /\ NextSnapshot(f, c)
    \/ GetPriority

SpecHeights == HeightsInit /\ [][HeightsNext]_vars

PriorityOrder == [Stash |-> 1, FetchNow |-> 2, Drop |-> 3]

\* C35: along snapshots of non-decreasing heights the priorities returned for
\* one dealing, support or share of the own subnet that is never wanted move
\* only from Stash to FetchNow to Drop: a priority returned after Drop is
\* Drop, and none returned after FetchNow or Drop is Stash.
C35_PriorityOverTime ==
    [][p_result # "none" /\ p_result' # "none" =>
          PriorityOrder[p_result] <= PriorityOrder[p_result']]_vars

\* A dealing was stashed under an early snapshot and the chain has since
\* grown past its source height: the closure of the current snapshot drops it.
C35_Witness ==
    /\ p_attr.kind = "Dealing"
    /\ p_result = "Stash"
    /\ compute_priority(p_attr, p_subnet_id, p_args) = "Drop"

\* An unvalidated dealing that is deferred: its config is not active and its
\* source height is above the finalized tip.
Deferred(m) ==
    /\ m.kind = "Dealing"
    /\ m.id \notin requested
    /\ SourceHeight(m.id) > finalized_height

Touched(m) == \E op \in ret' : op.msg = m

Computing(instance_id) == {t \in bg_tasks : t.instance_id = instance_id}

IsDeleted(instance_id) ==
    Exists(instance_id) /\ InstanceOf(instance_id) = Deleted

\* C38: a Deleted instance stays Deleted in every step: the background task
\* that finishes on it drops the PocketIc and leaves the instance states as
\* they are, and every update for it, of a client or of its auto-progress
\* thread, gets the error "Instance was deleted" and changes neither the
\* instance states, nor the graph, nor the background tasks.
C38_DeletedIsAbsorbing ==
    [][/\ \A instance_id \in InstanceIds :
              IsDeleted(instance_id) => instances'[instance_id + 1] = Deleted
       /\ \A t \in bg_tasks :
              BgTaskPutBack(t) /\ IsDeleted(t.instance_id)
              => instances' = instances /\ graph' = graph
       /\ \A op_id \in ClientOps, instance_id \in InstanceIds :
              Update(op_id, instance_id) /\ IsDeleted(instance_id)
              => /\ reply' = UpdateError("Instance was deleted")
                 /\ UNCHANGED <<instances, graph, progress_threads, threads,
                                bg_tasks, api_calls>>
       /\ \A instance_id \in InstanceIds :
              ThreadUpdate(instance_id) /\ IsDeleted(instance_id)
              => /\ UpdateLocked(threads[instance_id + 1].op, instance_id) =
                        UpdateError("Instance was deleted")
                 /\ UNCHANGED <<instances, graph, bg_tasks>>]_vars

\* The instance was deleted while it was computing: an update for it has just
\* been answered with the error, and the background task, which has added
\* its result to the graph, holds the PocketIc it is about to drop.
C38_Witness ==
    /\ IsDeleted(0)
    /\ reply = UpdateError("Instance was deleted")
    /\ \E t \in bg_tasks : t.instance_id = 0 /\ HasInserted(t)

\* C39: the step in which a Busy instance becomes Available finds the result
\* of its operation in the graph already, under the state label the instance
\* had before the operation and the id of the operation, with the state label
\* the instance has from now on; and no entry ever leaves the graph, so that
\* read_result finds the result of every operation that was answered Started
\* once its instance is Available again.
C39_ResultRecorded ==
    [][/\ \A instance_id \in InstanceIds :
              (/\ Exists(instance_id)
               /\ InstanceOf(instance_id).tag = "Busy"
               /\ instances'[instance_id + 1].tag = "Available")
              => LET busy == InstanceOf(instance_id)
                     recorded == GraphGet(busy.state_label, busy.op_id) IN
                 /\ recorded # {}
                 /\ \A e \in recorded :
                        /\ e.new_state_label =
                               instances'[instance_id + 1].pocket_ic
                        /\ e \in graph'
       /\ \A e \in graph :
              \E f \in graph' :
                  /\ f.state_label = e.state_label
                  /\ f.op_id = e.op_id]_vars

\* The auto-progress thread was answered Started for an operation that
\* changed the state, the instance is Available again, and the thread is
\* about to poll: read_result finds the entry with the new state label.
C39_Witness ==
    /\ Exists(0) /\ threads[1].pc = "poll"
    /\ threads[1].busy_outcome.tag = "Started"
    /\ InstanceOf(0) = Available(1)
    /\ bg_tasks = {}
    /\ \E e \in GraphGet(threads[1].busy_outcome.state_label,
                         threads[1].busy_outcome.op_id) :
           e.new_state_label = 1 /\ e.out = "Out"

\* ---------------------------------------------------------------------------
\* PocketIC server: the locks of ApiState
\* ---------------------------------------------------------------------------

\* ApiState::add_instance up to its second await: the write lock of instances
\* is taken, and the write lock of progress_threads has to wait for a
\* stop_progress that holds a read lock of it.
AddInstanceLock ==
    /\ Len(instances) <= MaxInstances
    /\ ~InstancesWriteLocked /\ ~InstancesRead
    /\ ProgressThreadsRead
    /\ Cardinality(api_calls) < MaxCalls
    /\ api_calls' = api_calls \cup
           {ApiCall("add_instance", Len(instances), "progress_threads",
                    NoReply)}
    /\ reply' = NoReply
    /\ UNCHANGED <<instances, graph, progress_threads, threads, bg_tasks,
                   idkg_vars>>

\* ApiState::add_instance from the write lock of progress_threads on.
AddInstancePush(c) ==
    /\ c \in api_calls /\ c.fn = "add_instance"
    /\ ~ProgressThreadsRead
    /\ instances' = Append(instances, Available(0))
    /\ progress_threads' = Append(progress_threads, "None")
    /\ threads' = Append(threads, NoThread)
    /\ api_calls' = api_calls \ {c}
    /\ reply' = NoReply
    /\ UNCHANGED <<graph, bg_tasks, idkg_vars>>

\* The operations that hold one lock while they wait for another lock or for
\* a handle, with the progress threads and background tasks they wait for.
ApiLocksNext ==
    \/ AddInstance
    \/ AddInstanceLock
    \/ \E c \in api_calls : AddInstancePush(c)
    \/ \E instance_id \in InstanceIds : AutoProgress(instance_id)
    \/ \E instance_id \in InstanceIds : StopProgress(instance_id)
    \/ \E c \in api_calls : StopProgressReturn(c)
    \/ \E instance_id \in InstanceIds : DeleteInstance(instance_id)
    \/ \E c \in api_calls : DeleteInstanceStopped(c)
    \/ \E c \in api_calls : DeleteInstanceReplace(c)
    \/ \E t \in bg_tasks, new_state_label \in StateLabels :
           BgTask(t, new_state_label)
    \/ \E t \in bg_tasks : BgTaskPutBack(t)
    \/ \E instance_id \in InstanceIds : ThreadUpdate(instance_id)
    \/ \E instance_id \in InstanceIds : ThreadTimeout(instance_id)
    \/ \E instance_id \in InstanceIds : ThreadOutput(instance_id)
    \/ \E instance_id \in InstanceIds : ThreadPoll(instance_id)
    \/ \E instance_id \in InstanceIds : ThreadSleep(instance_id)

SpecApiLocks == ApiInit /\ [][ApiLocksNext]_vars

\* A stop_progress, of its own or of a delete_instance, awaits the handle of
\* its thread under the read lock of progress_threads; an add_instance waits
\* for the write lock of progress_threads under the write lock of instances;
\* and the thread is at the update of its loop, which waits for a read lock
\* of instances before it looks at the stop message.
CircularWait ==
    \E c \in api_calls :
        /\ c.pc = "join"
        /\ InstancesWriteLocked
        /\ threads[c.instance_id + 1].pc = "update"

\* Nothing ends a circular wait: the three tasks stay where they are in every
\* later state.
CircularWaitIsForever == [][CircularWait => CircularWait']_vars

\* C40 as stated: under any interleaving of add_instance, update,
\* auto_progress, stop_progress and delete_instance no set of tasks waits on
\* each other's locks and join handles forever: the calls and the progress
\* thread are never in a circular wait.
C40_DeadlockFree == ~CircularWait

=============================================================================
